---- MODULE Spec2Model ----
\* Verification model of the Infuse-IoT host tools (Embeint/python-tools):
\* the serial frame reconstructor, the local IPC client, the RPC tool,
\* the ePacket codec and the binary patch engine.
\*
\* The module holds one specification per subsystem (SpecFrame, SpecRpc,
\* SpecCodec, SpecDiff).  Every specification shares the variables below; a
\* subsystem's actions leave the other subsystems' variables unchanged.
\*
\* Source files of different revisions name the device key id differently
\* (epacket/packet.py: device_id, database.py: device_key_id); the model
\* treats both names as the one field device_key_id.
EXTENDS Integers, Sequences, FiniteSets, TLC

VARIABLES
    \* ---- serial RX (serial_comms.py, tools/gateway.py SerialRxThread)
    rx_length,      \* reconstructor local: length
    rx_buffered,    \* reconstructor local: buffered
    rx_consumed,    \* history: every byte handed to the reconstructor so far
    rx_out,         \* history: the (consumed, packet) pair yielded per byte
    rx_frames,      \* history: frames handed to _handle_serial_frame, in order
    rx_split,       \* history: number of frames whose bytes spanned reads
    rx_line,        \* self._line: the bytes of the log line being collected
    rx_log,         \* history: the lines written to the log, in order
    rx_routed,      \* history: per byte, "appended", "newline" or "frame"
    \* ---- RPC tool and its LocalClient (tools/rpc.py, socket_comms.py)
    cl_cfg,         \* the command run: [id, mode, request_id, data_len]
    cl_pc,          \* where SubCommand.run is
    cl_connection_id, \* LocalClient._connection_id
    cl_exc,         \* the exception in flight ("none" when there is none)
    cl_data,        \* data-send: len(data) still to send
    cl_offset,      \* data-send: offset
    cl_ack_cnt,     \* data-send: ack_cnt
    cl_sent,        \* history: requests sent to the gateway, in order
    cl_h,           \* history: what the client observed
    \* ---- ePacket codec (epacket/packet.py, database.py)
    cd_db,          \* the DeviceDatabase: gateway, devices and the key caches
    cd_pc,          \* "idle", "encoded", "tampered", "decoded" or "failed"
    cd_tx,          \* history: the packet handed to to_serial and its outcome
    cd_frame,       \* the frame on its way to from_serial
    cd_flip,        \* history: the bit inverted in the frame, if any
    cd_rx,          \* history: what from_serial returned or raised
    \* ---- binary patch engine (diff.py)
    df_original,    \* the original array
    df_new,         \* the new array
    df_pc,          \* "idle", "generated", "failed", "edited" or "done"
    df_gen,         \* history: what generate returned or raised
    df_file,        \* the patch file as the next command reads it
    df_edit,        \* history: what was changed in the patch file, if anything
    df_out,         \* history: what patch or dump returned or raised
    \* ---- device registry API (database.py)
    rg_db,          \* the DeviceDatabase with the class-level key caches
    rg_h,           \* history: the last registry call, its arguments and its outcome
    \* ---- instruction objects of the patch generator, called on their own (diff.py)
    in_arg,         \* the call: the function and its arguments
    in_out,         \* what the call returned, None while it has not run
    \* ---- SignaledThread (util/threading.py)
    th_pc,          \* "new", "check" (at the loop test), "call", "in_fn" or "done"
    th_sig,         \* self._sig: is the event set?
    th_count,       \* history: invocations of fn started, counted up to MaxCalls
    th_h,           \* history: the stop() calls and the invocations started after the first
    \* ---- gateway RX worker (tools/gateway.py)
    gw_db,          \* common.ddb: the DeviceDatabase of the gateway tool
    gw_rpc,         \* common.rpc: [cnt, queued] of the LocalRpcServer
    gw_port,        \* history: what was written to the serial port, in order
    gw_bcast,       \* history: the packets broadcast as EPACKET_RECV, in order
    gw_dropped,     \* history: the frames dropped for a missing device key
    gw_h,           \* history: the last frame handled and what handling it did
    gw_feed,        \* the traffic of this run: which frames and requests may arrive
    gw_conn,        \* history: the connection notifications broadcast, in order
    gw_tx,          \* the TX worker: where it is, the request in hand, what ended it
    gw_t,           \* history: the last request handled by the TX worker
    \* ---- the decoding of containers of received packets
    ct_records,     \* the records a gateway device packed into a container, in order
    ct_out,         \* what from_serial made of the container, None before the call
    \* ---- the two workers of the gateway tool, statement by statement
    wk_port,        \* the transport of this run: serial or rtt
    wk_sig,         \* _sig of each worker: set by stop()
    wk_rx,          \* the RX worker: where it is, frames left of its read, state of its write
    wk_tx,          \* the TX worker: where it is, the request in hand, state of its write
    wk_reg,         \* the record of the gateway: none, partial (no shared key yet) or complete
    wk_queued,      \* is a callback of security_state queued?
    wk_h,           \* history: writes interleaved, record read in the middle of an update, requests taken after stop
    \* ---- what the peer of the RX worker wrote to the transport
    rs_sent,        \* history: the pieces the peer wrote, in order, each with its kind and bytes
    \* ---- LocalRpcServer shared by the two workers (tools/gateway.py)
    rq_cnt,         \* LocalRpcServer._cnt
    rq_queued,      \* LocalRpcServer._queued: request id -> callback
    rq_th,          \* each worker: where it is in generate or handle, and its locals
    rq_cmds,        \* the commands generate returned: header id, callback, worker, written, answered
    rq_h            \* history: calls of generate begun, entries replaced, callbacks run

frameVars == <<rx_length, rx_buffered, rx_consumed, rx_out, rx_frames, rx_split,
               rx_line, rx_log, rx_routed>>

clVars == <<cl_cfg, cl_pc, cl_connection_id, cl_exc, cl_data, cl_offset,
            cl_ack_cnt, cl_sent, cl_h>>

cdVars == <<cd_db, cd_pc, cd_tx, cd_frame, cd_flip, cd_rx>>

dfVars == <<df_original, df_new, df_pc, df_gen, df_file, df_edit, df_out>>

rgVars == <<rg_db, rg_h>>

inVars == <<in_arg, in_out>>

thVars == <<th_pc, th_sig, th_count, th_h>>

gwVars == <<gw_db, gw_rpc, gw_port, gw_bcast, gw_dropped, gw_h, gw_feed, gw_conn, gw_tx, gw_t>>

ctVars == <<ct_records, ct_out>>

wkVars == <<wk_port, wk_sig, wk_rx, wk_tx, wk_reg, wk_queued, wk_h>>

rsVars == <<rs_sent>>

rqVars == <<rq_cnt, rq_queued, rq_th, rq_cmds, rq_h>>

vars == <<frameVars, clVars, cdVars, dfVars, rgVars, inVars, thVars, gwVars, ctVars, wkVars, rsVars, rqVars>>

\* The variables of the other subsystems, which a subsystem's actions leave
\* unchanged
notFrameVars == <<clVars, cdVars, dfVars, rgVars, inVars, thVars, gwVars, ctVars, wkVars, rsVars, rqVars>>

notClVars == <<frameVars, cdVars, dfVars, rgVars, inVars, thVars, gwVars, ctVars, wkVars, rsVars, rqVars>>

notCdVars == <<frameVars, clVars, dfVars, rgVars, inVars, thVars, gwVars, ctVars, wkVars, rsVars, rqVars>>

notDfVars == <<frameVars, clVars, cdVars, rgVars, inVars, thVars, gwVars, ctVars, wkVars, rsVars, rqVars>>

notRgVars == <<frameVars, clVars, cdVars, dfVars, inVars, thVars, gwVars, ctVars, wkVars, rsVars, rqVars>>

notInVars == <<frameVars, clVars, cdVars, dfVars, rgVars, thVars, gwVars, ctVars, wkVars, rsVars, rqVars>>

notThVars == <<frameVars, clVars, cdVars, dfVars, rgVars, inVars, gwVars, ctVars, wkVars, rsVars, rqVars>>

notGwVars == <<frameVars, clVars, cdVars, dfVars, rgVars, inVars, thVars, ctVars, wkVars, rsVars, rqVars>>

notCtVars == <<frameVars, clVars, cdVars, dfVars, rgVars, inVars, thVars, gwVars, wkVars, rsVars, rqVars>>

notWkVars == <<frameVars, clVars, cdVars, dfVars, rgVars, inVars, thVars, gwVars, ctVars, rsVars, rqVars>>

notRsVars == <<frameVars, clVars, cdVars, dfVars, rgVars, inVars, thVars, gwVars, ctVars, wkVars, rqVars>>

notRqVars == <<frameVars, clVars, cdVars, dfVars, rgVars, inVars, thVars, gwVars, ctVars, wkVars, rsVars>>

\* An optional value: None, or Some(v)
None == [some |-> FALSE, val |-> <<>>]

Some(v) == [some |-> TRUE, val |-> v]

\* ------------------------------------------------------------------
\* Generic helpers
\* ------------------------------------------------------------------
\* The element of a one-element set.  Only({e(x) : x \in {v}}) is e with its
\* local x assigned v once.
Only(S) == CHOOSE y \in S : TRUE

Min(a, b) == IF a < b THEN a ELSE b

Max(a, b) == IF a > b THEN a ELSE b

\* All sequences over S of length lo..hi
SeqsOf(S, lo, hi) == UNION {[1..n -> S] : n \in lo..hi}

\* b[from:to] of Python (0-based, end exclusive, clamped like a slice)
Slice(b, from, to) ==
    LET f == Min(Max(from, 0), Len(b))
        t == Min(Max(to, 0), Len(b))
    IN IF t <= f THEN <<>> ELSE SubSeq(b, f + 1, t)

\* int.to_bytes(2, "little")
U16LE(n) == <<n % 256, (n \div 256) % 256>>

\* int.from_bytes(b, "little") for a 2-byte value
FromU16LE(b) == b[1] + 256 * b[2]

\* ------------------------------------------------------------------
\* Local IPC client and RPC tool (socket_comms.py, tools/rpc.py)
\* ------------------------------------------------------------------
\* InfuseID.GATEWAY
GATEWAY == -1

\* Bounds of the client model
MaxDataChunks == 3

\* Size of one RPC_DATA chunk
ChunkSize == 192

\* ack_period of _run_data_send_cmd
AckPeriod == 1

\* Infuse ids on the bus: the local gateway and two devices
BusIds == {GATEWAY, 5, 6}

RequestIds == {11, 12}

PacketTypes == {"RPC_DATA", "RPC_DATA_ACK", "RPC_RSP", "TDF"}

\* ClientNotification: what one datagram on the multicast socket decodes to
ConnNotifications ==
    [type : {"CONNECTION_FAILED", "CONNECTION_CREATED", "CONNECTION_DROPPED"},
     infuse_id : BusIds]

EpacketNotifications ==
    [type : {"EPACKET_RECV"}, ptype : PacketTypes, request_id : RequestIds]

\* What one LocalClient.receive() call can do: return a notification,
\* return None on a socket timeout, or raise because the datagram does not
\* decode
Timeout == [type |-> "None"]

BadDatagram == [type |-> "raise"]

Receives == ConnNotifications \cup EpacketNotifications \cup {Timeout, BadDatagram}

\* GatewayRequest
ConnectionRequest(id) == [type |-> "CONNECTION_REQUEST", infuse_id |-> id]

ConnectionRelease(id) == [type |-> "CONNECTION_RELEASE", infuse_id |-> id]

EpacketSend(id, ptype, offset) ==
    [type |-> "EPACKET_SEND", infuse_id |-> id, ptype |-> ptype, offset |-> offset]

\* Payload lengths of a data-send command
DataLens == {0} \cup {k * ChunkSize + r : k \in 0..(MaxDataChunks - 1), r \in {1, ChunkSize}}

Modes == {"standard", "data_send", "data_recv"}

\* Is the RPC in progress at this point of run()?
InRpc(pc) == pc \in {"wait_ack0", "send_data", "wait_ack", "wait_rsp", "recv_loop"}

NoHistory ==
    [created |-> 0, failed |-> 0, begun |-> FALSE, create_timeout |-> FALSE,
     dropped |-> FALSE, waited_after_drop |-> FALSE, sent_after_drop |-> 0,
     completed |-> FALSE, closed |-> FALSE,
     acked |-> FALSE, since_ack |-> 0, timed_out |-> FALSE,
     sent_after_timeout |-> 0, chunks |-> <<>>, decided_by |-> None]

\* The client before SubCommand.run is called (SubCommand.__init__)
ClInit ==
    /\ cl_cfg \in [id : BusIds, mode : Modes, request_id : RequestIds, data_len : DataLens]
    /\ (cl_cfg.mode # "data_send" => cl_cfg.data_len = 0)
    /\ cl_pc = "run"
    /\ cl_connection_id = None
    /\ cl_exc = "none"
    /\ cl_data = cl_cfg.data_len
    /\ cl_offset = 0
    /\ cl_ack_cnt = 0
    /\ cl_sent = <<>>
    /\ cl_h = NoHistory

\* No client in the system
ClOff ==
    /\ cl_cfg = [id |-> GATEWAY, mode |-> "standard", request_id |-> 11, data_len |-> 0]
    /\ cl_pc = "off"
    /\ cl_connection_id = None
    /\ cl_exc = "none"
    /\ cl_data = 0
    /\ cl_offset = 0
    /\ cl_ack_cnt = 0
    /\ cl_sent = <<>>
    /\ cl_h = NoHistory

\* An exception leaves the try block of run(): ConnectionRefusedError is
\* caught and printed, anything else stays in flight; the finally block runs
\* next in both cases
ClRaise(exc) ==
    /\ cl_pc' = "finally"
    /\ cl_exc' = exc

\* The history after a receive that returned n while the RPC is in progress
RpcObserved(n) ==
    [cl_h EXCEPT !.dropped = @ \/ n.type = "CONNECTION_DROPPED",
                 !.waited_after_drop = @ \/ cl_h.dropped,
                 !.timed_out = @ \/ n.type = "None"]

\* The history after sending the RPC_DATA packet that carries size bytes
\* from offset on
RpcSent(offset, size) ==
    [cl_h EXCEPT !.sent_after_drop = @ + (IF cl_h.dropped THEN 1 ELSE 0),
                 !.sent_after_timeout = @ + (IF cl_h.timed_out THEN 1 ELSE 0),
                 !.since_ack = @ + 1,
                 !.chunks = Append(@, [offset |-> offset, size |-> size])]

\* LocalClient.connection_create up to its first receive: remember the id
\* and send the request
ClConnectionCreate ==
    /\ cl_pc = "run"
    /\ UNCHANGED notClVars
    /\ cl_connection_id' = Some(cl_cfg.id)
    /\ cl_sent' = Append(cl_sent, ConnectionRequest(cl_cfg.id))
    /\ cl_pc' = "create_wait"
    /\ UNCHANGED <<cl_cfg, cl_exc, cl_data, cl_offset, cl_ack_cnt, cl_h>>

\* while rsp := self.receive(): None ends the loop, CREATED breaks, FAILED
\* raises, anything else is skipped
CreateWait(n) ==
    IF n.type = "None" THEN "return"
    ELSE IF n.type = "CONNECTION_CREATED" THEN "return"
    ELSE IF n.type = "CONNECTION_FAILED" THEN "refused"
    ELSE "continue"

\* One turn of the wait loop of connection_create
ClCreateReceive ==
    /\ cl_pc = "create_wait"
    /\ UNCHANGED notClVars
    /\ \E n \in Receives :
        LET todo == CreateWait(n)
        IN /\ cl_h' = [cl_h EXCEPT
                        !.created = @ + (IF n.type = "CONNECTION_CREATED" THEN 1 ELSE 0),
                        !.failed = @ + (IF n.type = "CONNECTION_FAILED" THEN 1 ELSE 0),
                        !.create_timeout = @ \/ n.type = "None",
                        !.decided_by = IF todo \in {"return", "refused"}
                                          /\ n.type # "None"
                                       THEN Some(n.infuse_id) ELSE @,
                        !.begun = (n.type # "raise" /\ todo = "return")]
           /\ IF n.type = "raise" THEN ClRaise("Error")
              ELSE IF todo = "refused" THEN ClRaise("ConnectionRefusedError")
              ELSE IF todo = "return" THEN cl_pc' = "cmd" /\ cl_exc' = cl_exc
              ELSE UNCHANGED <<cl_pc, cl_exc>>
    /\ UNCHANGED <<cl_cfg, cl_connection_id, cl_data, cl_offset, cl_ack_cnt, cl_sent>>

\* run() picks the mode and the mode sends RPC_CMD
ClRunCmd ==
    /\ cl_pc = "cmd"
    /\ UNCHANGED notClVars
    /\ cl_sent' = Append(cl_sent, EpacketSend(cl_cfg.id, "RPC_CMD", 0))
    /\ cl_pc' = CASE cl_cfg.mode = "data_send" -> "wait_ack0"
                  [] cl_cfg.mode = "data_recv" -> "recv_loop"
                  [] OTHER -> "wait_rsp"
    /\ UNCHANGED <<cl_cfg, cl_connection_id, cl_exc, cl_data, cl_offset, cl_ack_cnt, cl_h>>

\* Is n the packet of type ptype that answers our request?
Matches(n, ptype) ==
    /\ n.type = "EPACKET_RECV"
    /\ n.ptype = ptype
    /\ n.request_id = cl_cfg.request_id

\* What a wait loop (_wait_data_ack, _wait_rpc_rsp) does with one receive()
\* result: None ends the loop, the awaited packet breaks, anything else is
\* skipped
WaitLoop(n, ptype) ==
    IF n.type = "None" THEN "return"
    ELSE IF Matches(n, ptype) THEN "return"
    ELSE "continue"

\* The history after a receive of _wait_data_ack that returned n
AckObserved(n) ==
    [RpcObserved(n) EXCEPT
        !.acked = @ \/ Matches(n, "RPC_DATA_ACK"),
        !.since_ack = IF Matches(n, "RPC_DATA_ACK") THEN 0 ELSE @]

\* Where _run_data_send_cmd goes once a _wait_data_ack has returned
AfterAck(data) == IF data > 0 THEN "send_data" ELSE "wait_rsp"

\* One turn of _wait_data_ack, for the initial ACK
ClWaitFirstAck ==
    /\ cl_pc = "wait_ack0"
    /\ UNCHANGED notClVars
    /\ \E n \in Receives :
        /\ cl_h' = AckObserved(n)
        /\ IF n.type = "raise" THEN ClRaise("Error") /\ UNCHANGED cl_ack_cnt
           ELSE IF WaitLoop(n, "RPC_DATA_ACK") = "return"
           THEN /\ cl_ack_cnt' = 0 - AckPeriod
                /\ cl_pc' = AfterAck(cl_data)
                /\ cl_exc' = cl_exc
           ELSE UNCHANGED <<cl_pc, cl_exc, cl_ack_cnt>>
    /\ UNCHANGED <<cl_cfg, cl_connection_id, cl_data, cl_offset, cl_sent>>

\* One turn of the chunk loop of _run_data_send_cmd up to its wait, or to
\* its end when no wait is due
ClSendData ==
    /\ cl_pc = "send_data"
    /\ UNCHANGED notClVars
    /\ LET size == Min(ChunkSize, cl_data)
       IN /\ cl_sent' = Append(cl_sent, EpacketSend(cl_cfg.id, "RPC_DATA", cl_offset))
          /\ cl_h' = RpcSent(cl_offset, size)
          /\ IF cl_ack_cnt + 1 = AckPeriod
             THEN /\ cl_pc' = "wait_ack"
                  /\ UNCHANGED <<cl_data, cl_offset>>
                  /\ cl_ack_cnt' = cl_ack_cnt + 1
             ELSE /\ cl_ack_cnt' = cl_ack_cnt + 1
                  /\ cl_offset' = cl_offset + size
                  /\ cl_data' = cl_data - size
                  /\ cl_pc' = AfterAck(cl_data - size)
    /\ UNCHANGED <<cl_cfg, cl_connection_id, cl_exc>>

\* One turn of _wait_data_ack inside the chunk loop; when it returns the chunk
\* loop finishes its turn
ClWaitAck ==
    /\ cl_pc = "wait_ack"
    /\ UNCHANGED notClVars
    /\ \E n \in Receives :
        /\ cl_h' = AckObserved(n)
        /\ IF n.type = "raise"
           THEN ClRaise("Error") /\ UNCHANGED <<cl_ack_cnt, cl_offset, cl_data>>
           ELSE IF WaitLoop(n, "RPC_DATA_ACK") = "return"
           THEN LET size == Min(ChunkSize, cl_data)
                IN /\ cl_ack_cnt' = 0
                   /\ cl_offset' = cl_offset + size
                   /\ cl_data' = cl_data - size
                   /\ cl_pc' = AfterAck(cl_data - size)
                   /\ cl_exc' = cl_exc
           ELSE UNCHANGED <<cl_pc, cl_exc, cl_ack_cnt, cl_offset, cl_data>>
    /\ UNCHANGED <<cl_cfg, cl_connection_id, cl_sent>>

\* One turn of _wait_rpc_rsp
ClWaitRpcRsp ==
    /\ cl_pc = "wait_rsp"
    /\ UNCHANGED notClVars
    /\ \E n \in Receives :
        /\ cl_h' = [RpcObserved(n) EXCEPT !.completed = @ \/ Matches(n, "RPC_RSP")]
        /\ IF n.type = "raise" THEN ClRaise("Error")
           ELSE IF WaitLoop(n, "RPC_RSP") = "return"
           THEN cl_pc' = "finally" /\ cl_exc' = cl_exc
           ELSE UNCHANGED <<cl_pc, cl_exc>>
    /\ UNCHANGED <<cl_cfg, cl_connection_id, cl_data, cl_offset, cl_ack_cnt, cl_sent>>

\* What the receive loop of _run_data_recv_cmd does with one receive()
\* result: None ends the loop, CONNECTION_DROPPED and our RPC_RSP break,
\* anything else is skipped or handed to data_recv_cb
DataRecvLoop(n) ==
    IF n.type = "None" THEN "return"
    ELSE IF n.type = "CONNECTION_DROPPED" THEN "return"
    ELSE IF Matches(n, "RPC_RSP") THEN "return"
    ELSE "continue"

\* One turn of the receive loop of _run_data_recv_cmd
ClDataRecv ==
    /\ cl_pc = "recv_loop"
    /\ UNCHANGED notClVars
    /\ \E n \in Receives :
        /\ cl_h' = [RpcObserved(n) EXCEPT !.completed = @ \/ Matches(n, "RPC_RSP")]
        /\ IF n.type = "raise" THEN ClRaise("Error")
           ELSE IF DataRecvLoop(n) = "return"
           THEN cl_pc' = "finally" /\ cl_exc' = cl_exc
           ELSE UNCHANGED <<cl_pc, cl_exc>>
    /\ UNCHANGED <<cl_cfg, cl_connection_id, cl_data, cl_offset, cl_ack_cnt, cl_sent>>

\* connection_release that forgets to clear the id
ReleasedIdKept(connection_id) == connection_id

\* LocalClient._connection_id after connection_release
ReleasedId(connection_id) == None

\* The finally block of run(): LocalClient.connection_release; afterwards
\* run() returns, or the exception in flight leaves it
ClConnectionRelease ==
    /\ cl_pc = "finally"
    /\ UNCHANGED notClVars
    /\ cl_pc' = "done"
    /\ IF cl_connection_id.some
       THEN /\ cl_sent' = Append(cl_sent, ConnectionRelease(cl_connection_id.val))
            /\ cl_connection_id' = ReleasedId(cl_connection_id)
            /\ cl_exc' = cl_exc
       ELSE /\ cl_exc' = "AssertionError"
            /\ UNCHANGED <<cl_sent, cl_connection_id>>
    /\ UNCHANGED <<cl_cfg, cl_data, cl_offset, cl_ack_cnt, cl_h>>

\* LocalClient.close, called once run() is over
ClClose ==
    /\ cl_pc = "done"
    /\ UNCHANGED notClVars
    /\ ~cl_h.closed
    /\ cl_sent' = IF cl_connection_id.some /\ cl_connection_id.val # 0
                  THEN Append(cl_sent, ConnectionRelease(cl_connection_id.val))
                  ELSE cl_sent
    /\ cl_h' = [cl_h EXCEPT !.closed = TRUE]
    /\ UNCHANGED <<cl_cfg, cl_pc, cl_connection_id, cl_exc, cl_data, cl_offset, cl_ack_cnt>>

ClNext ==
    \/ ClConnectionCreate
    \/ ClCreateReceive
    \/ ClRunCmd
    \/ ClWaitFirstAck
    \/ ClSendData
    \/ ClWaitAck
    \/ ClWaitRpcRsp
    \/ ClDataRecv
    \/ ClConnectionRelease
    \/ ClClose

\* ------------------------------------------------------------------
\* ePacket codec (epacket/packet.py, database.py, crypto.py, time.py)
\*
\* A 64-bit infuse id is the tuple of its 8 bytes, most significant first,
\* and a u32 header field is the tuple of its 4 bytes as stored (little
\* endian): both exceed the model checker's integers.  HKDF-SHA256 and
\* ChaCha20-Poly1305 come from the cryptography library and are modelled as
\* ideal: distinct inputs derive distinct keys, and a tag verifies only for
\* the key, associated data, nonce and ciphertext it was computed over.
\* ------------------------------------------------------------------
\* Longest payload handed to to_serial
MaxPayload == 1

PayloadBytes == {0, 255}

ENCR_DEVICE == 32768

ENCR_NETWORK == 0

GPS_UNIX_OFFSET == 315964800

UNIX_LEAP_SECONDS == 18

\* InfuseType values
InfuseTypeValues == {0, 1, 2, 3, 4, 5, 6, 7, 8, 9, 10, 30, 127}

TDF == 2

RPC_RSP == 6

RECEIVED_EPACKET == 7

\* Packet types handed to to_serial
CdTypes == {TDF, RPC_RSP, RECEIVED_EPACKET}

\* Infuse ids of the devices the registry may know at the start
IdA == <<0, 17, 34, 51, 68, 85, 102, 119>>

IdB == <<0, 17, 34, 51, 68, 85, 102, 120>>

\* Readings of time.time()
UnixTimes == {316051181, 1731000000}

\* Network ids whose key the keyring holds (credentials.load_network)
KeyringNetworks == {0, 1}

U24LE(n) == <<n % 256, (n \div 256) % 256, (n \div 65536) % 256>>

FromU24LE(b) == b[1] + 256 * b[2] + 65536 * b[3]

\* A c_uint32 field as stored; n is below 2^31 here
U32LE(n) == <<n % 256, (n \div 256) % 256, (n \div 65536) % 256, (n \div 16777216) % 256>>

Reverse(s) == [i \in 1..Len(s) |-> s[Len(s) + 1 - i]]

RECURSIVE SumSeq(_)
SumSeq(s) == IF s = <<>> THEN 0 ELSE s[1] + SumSeq(Tail(s))

RECURSIVE Xor8(_, _)
Xor8(a, b) == IF a = 0 /\ b = 0 THEN 0 ELSE ((a + b) % 2) + 2 * Xor8(a \div 2, b \div 2)

\* InfuseTime.gps_seconds_from_unix
gps_seconds_from_unix(unix_seconds) == unix_seconds - GPS_UNIX_OFFSET + UNIX_LEAP_SECONDS

\* time_idx = gps_time // (60 * 60 * 24), on the four stored bytes of gps_time
\* (86400 = 128 * 675)
TimeIdx(g) == ((g[1] \div 128) + 2 * g[2] + 512 * g[3] + 131072 * g[4]) \div 675

\* hkdf_derive: the derived key is identified by what it was derived from
hkdf_derive(input_key, salt, info) == [ikm |-> input_key, salt |-> salt, info |-> info]

\* DeviceDatabase.DeviceState.__init__
NewDeviceState == [network_id |-> None, device_key_id |-> None, shared_key |-> None]

\* An observe_device that keeps the network id a record already has
observe_device_first(db, infuse_id, network_id, device_key_id) ==
    LET gw == IF db.gateway.some THEN db.gateway ELSE Some(infuse_id)
        d0 == IF infuse_id \in DOMAIN db.devices THEN db.devices
              ELSE [x \in DOMAIN db.devices \cup {infuse_id} |->
                        IF x = infuse_id THEN NewDeviceState ELSE db.devices[x]]
        d1 == IF network_id.some /\ ~d0[infuse_id].network_id.some
              THEN [d0 EXCEPT ![infuse_id].network_id = network_id] ELSE d0
        changed == /\ device_key_id.some
                   /\ d1[infuse_id].device_key_id.some
                   /\ d1[infuse_id].device_key_id.val # device_key_id.val
        d2 == IF device_key_id.some /\ ~changed
              THEN [d1 EXCEPT ![infuse_id].device_key_id = device_key_id] ELSE d1
    IN [db |-> [db EXCEPT !.gateway = gw, !.devices = d2],
        exc |-> IF changed THEN "DeviceKeyChangedError" ELSE "none",
        key |-> None]

\* DeviceDatabase.observe_device (bt_addr is never passed by the serial path)
observe_device(db, infuse_id, network_id, device_key_id) ==
    LET gw == IF db.gateway.some THEN db.gateway ELSE Some(infuse_id)
        d0 == IF infuse_id \in DOMAIN db.devices THEN db.devices
              ELSE [x \in DOMAIN db.devices \cup {infuse_id} |->
                        IF x = infuse_id THEN NewDeviceState ELSE db.devices[x]]
        d1 == IF network_id.some THEN [d0 EXCEPT ![infuse_id].network_id = network_id] ELSE d0
        changed == /\ device_key_id.some
                   /\ d1[infuse_id].device_key_id.some
                   /\ d1[infuse_id].device_key_id.val # device_key_id.val
        d2 == IF device_key_id.some /\ ~changed
              THEN [d1 EXCEPT ![infuse_id].device_key_id = device_key_id] ELSE d1
    IN [db |-> [db EXCEPT !.gateway = gw, !.devices = d2],
        exc |-> IF changed THEN "DeviceKeyChangedError" ELSE "none",
        key |-> None]

\* d[k] = v on a dict
DictPut(d, k, v) == [x \in DOMAIN d \cup {k} |-> IF x = k THEN v ELSE d[x]]

\* A cache key that leaves the interface out
DerivedKeyIdNoInterface(network_id, interface, time_idx) == <<network_id, time_idx>>

\* DeviceDatabase._network_key, key_id
DerivedKeyId(network_id, interface, time_idx) == <<network_id, interface, time_idx>>

\* DeviceDatabase._network_key, "if key_id not in self._derived_keys"
DerivedKeys(db, key_id, base, time_idx, interface) ==
    IF key_id \in DOMAIN db.derived_keys THEN db.derived_keys
    ELSE DictPut(db.derived_keys, key_id, hkdf_derive(base, U32LE(time_idx), interface))

\* DeviceDatabase._network_key: _network_keys holds the ids of the networks
\* whose key was loaded from the keyring, _derived_keys the derived keys
network_key(db, network_id, interface, gps_time) ==
    IF network_id \notin db.network_keys /\ network_id \notin KeyringNetworks
    THEN [db |-> db, exc |-> "UnknownNetworkError", key |-> None]
    ELSE LET time_idx == TimeIdx(gps_time)
             key_id == DerivedKeyId(network_id, interface, time_idx)
             derived == DerivedKeys(db, key_id, <<"network", network_id>>, time_idx,
                                    interface)
         IN [db |-> [db EXCEPT !.network_keys = @ \cup {network_id},
                               !.derived_keys = derived],
             exc |-> "none",
             key |-> Some(derived[key_id])]

\* DeviceDatabase._get_network_key
get_network_key(db, infuse_id, name, gps_time) ==
    IF infuse_id \notin DOMAIN db.devices \/ ~db.devices[infuse_id].network_id.some
    THEN [db |-> db, exc |-> "DeviceUnknownNetworkKey", key |-> None]
    ELSE network_key(db, db.devices[infuse_id].network_id.val, name, gps_time)

\* DeviceDatabase._get_device_key
get_device_key(db, infuse_id, name, gps_time) ==
    IF \/ infuse_id \notin DOMAIN db.devices
       \/ ~db.devices[infuse_id].device_key_id.some
       \/ ~db.devices[infuse_id].shared_key.some
    THEN [db |-> db, exc |-> "DeviceUnknownDeviceKey", key |-> None]
    ELSE [db |-> db, exc |-> "none",
          key |-> Some(hkdf_derive(<<"device", db.devices[infuse_id].shared_key.val>>,
                                   U32LE(TimeIdx(gps_time)), name))]

\* DeviceDatabase.serial_network_key
serial_network_key(db, infuse_id, gps_time) == get_network_key(db, infuse_id, "serial", gps_time)

\* DeviceDatabase.serial_device_key
serial_device_key(db, infuse_id, gps_time) == get_device_key(db, infuse_id, "serial", gps_time)

\* bytes(CtypeV0VersionedFrame): packed, little endian; the device_id setter
\* splits the id into its upper and lower 32 bits
HeaderBytes(h) ==
    <<h.version, h.type>> \o U16LE(h.flags) \o U24LE(h.key_metadata)
        \o Reverse(SubSeq(h.device_id, 1, 4)) \o Reverse(SubSeq(h.device_id, 5, 8))
        \o h.gps_time \o U16LE(h.sequence) \o U16LE(h.entropy)

\* CtypeV0VersionedFrame.from_buffer_copy and the field getters
ParseHeader(b) ==
    [version |-> b[1], type |-> b[2], flags |-> FromU16LE(SubSeq(b, 3, 4)),
     key_metadata |-> FromU24LE(SubSeq(b, 5, 7)),
     device_id |-> Reverse(SubSeq(b, 8, 11)) \o Reverse(SubSeq(b, 12, 15)),
     gps_time |-> SubSeq(b, 16, 19),
     sequence |-> FromU16LE(SubSeq(b, 20, 21)),
     entropy |-> FromU16LE(SubSeq(b, 22, 23))]

\* flags & Flags.ENCR_DEVICE
IsDeviceEncrypted(flags) == (flags \div ENCR_DEVICE) % 2 = 1

\* ChaCha20 key stream byte at position i: fixed by the key and the nonce
Pad(key, nonce, i) == (SumSeq(key.salt) + key.ikm[2] + SumSeq(nonce) + 31 * i) % 256

ChaCha20(key, nonce, data) == [i \in 1..Len(data) |-> Xor8(data[i], Pad(key, nonce, i))]

\* A Poly1305 tag that leaves the associated data out
TagOfNoAd(key, ad, nonce, ct) == <<key, <<>>, nonce, ct>>

\* The Poly1305 tag of (key, associated data, nonce, ciphertext)
TagOf(key, ad, nonce, ct) == <<key, ad, nonce, ct>>

\* chachapoly_encrypt: ciphertext || 16-byte tag; flip is the set of tag bits
\* that differ from the computed tag
chachapoly_encrypt(key, associated_data, nonce, payload) ==
    LET ct == ChaCha20(key, nonce, payload)
    IN [ct |-> ct, tag |-> [mac |-> TagOf(key, associated_data, nonce, ct), flip |-> {}]]

\* chachapoly_decrypt: InvalidTag unless the tag verifies
chachapoly_decrypt(key, associated_data, nonce, payload) ==
    IF payload.tag.flip = {} /\ payload.tag.mac = TagOf(key, associated_data, nonce, payload.ct)
    THEN [exc |-> "none", plain |-> ChaCha20(key, nonce, payload.ct)]
    ELSE [exc |-> "InvalidTag", plain |-> <<>>]

\* Size of the Poly1305 tag in bits (16 bytes)
TagBits == 128

\* sizeof(CtypePacketReceived.CommonHeader)
CommonHeaderSize == 4

Failed(db, exc) == [db |-> db, exc |-> exc, frame |-> None, key |-> None, key_metadata |-> None]

\* PacketOutput.to_serial.  The frame is header_bytes + ciphertext: bytes
\* holds the header and the encrypted payload, tag the trailing 16 bytes.
to_serial(db, route, ptype, payload, unix_time, entropy) ==
    LET gps_time == U32LE(gps_seconds_from_unix(unix_time))
        hop == route[1]
        network == hop.auth = "NETWORK"
        dev == db.devices[hop.infuse_id]
        flags == IF network THEN ENCR_NETWORK ELSE ENCR_DEVICE
        key_metadata == IF network THEN dev.network_id ELSE dev.device_key_id
        k == IF network THEN serial_network_key(db, hop.infuse_id, gps_time)
             ELSE serial_device_key(db, hop.infuse_id, gps_time)
        header == [version |-> 0, type |-> ptype, flags |-> flags,
                   key_metadata |-> key_metadata.val, device_id |-> db.gateway.val,
                   gps_time |-> gps_time, sequence |-> 0, entropy |-> entropy]
        header_bytes == HeaderBytes(header)
        ciphertext == chachapoly_encrypt(k.key.val, SubSeq(header_bytes, 1, 11),
                                         SubSeq(header_bytes, 12, 23), payload)
    IN IF Len(route) # 1 THEN Failed(db, "AssertionError")
       ELSE IF hop.infuse_id \notin DOMAIN db.devices THEN Failed(db, "KeyError")
       ELSE IF k.exc # "none" THEN Failed(k.db, k.exc)
       ELSE IF ~db.gateway.some THEN Failed(k.db, "TypeError")
       ELSE [db |-> k.db, exc |-> "none",
             frame |-> Some([bytes |-> header_bytes \o ciphertext.ct, tag |-> ciphertext.tag]),
             key |-> k.key, key_metadata |-> key_metadata]

\* CtypeSerialFrame.hop_received
hop_received(header) ==
    [infuse_id |-> header.device_id, interface |-> "SERIAL",
     auth |-> IF IsDeviceEncrypted(header.flags) THEN "DEVICE" ELSE "NETWORK",
     key_identifier |-> header.key_metadata, gps_time |-> header.gps_time,
     sequence |-> header.sequence, rssi |-> 0]

\* The associated data taken one byte too long
DecAssociatedDataLong(frame) == SubSeq(frame, 1, 12)

\* frame[:11] in CtypeSerialFrame.decrypt
DecAssociatedData(frame) == SubSeq(frame, 1, 11)

\* CtypeSerialFrame.decrypt, last line: chachapoly_decrypt with the key found
DecryptWithKey(frame, header, k) ==
    IF k.exc # "none"
    THEN [db |-> k.db, exc |-> k.exc, header |-> header, decrypted |-> <<>>, key |-> None]
    ELSE Only({[db |-> k.db, exc |-> d.exc, header |-> header, decrypted |-> d.plain,
                key |-> k.key] :
               d \in {chachapoly_decrypt(k.key.val, DecAssociatedData(frame.bytes),
                                         SubSeq(frame.bytes, 12, 23),
                                         [ct |-> SubSeq(frame.bytes, 24, Len(frame.bytes)),
                                          tag |-> frame.tag])}})

\* CtypeSerialFrame.decrypt, key lookup: o is what observe_device left
DecryptObserved(frame, header, o) ==
    Only({DecryptWithKey(frame, header, k) :
          k \in {IF o.exc # "none" THEN o
                 ELSE IF IsDeviceEncrypted(header.flags)
                 THEN serial_device_key(o.db, header.device_id, header.gps_time)
                 ELSE serial_network_key(o.db, header.device_id, header.gps_time)}})

\* CtypeSerialFrame.decrypt, after from_buffer_copy: the registry observes
\* the header before the key is looked up and before the tag is verified
DecryptHeader(db, frame, header) ==
    Only({DecryptObserved(frame, header, o) :
          o \in {IF IsDeviceEncrypted(header.flags)
                 THEN observe_device(db, header.device_id, None, Some(header.key_metadata))
                 ELSE observe_device(db, header.device_id, Some(header.key_metadata), None)}})

\* CtypeSerialFrame.decrypt
SerialFrameDecrypt(db, frame) ==
    Only({DecryptHeader(db, frame, header) : header \in {ParseHeader(frame.bytes)}})

\* DeviceDatabase.bt_adv_network_key
bt_adv_network_key(db, infuse_id, gps_time) == get_network_key(db, infuse_id, "bt_adv", gps_time)

\* DeviceDatabase.bt_adv_device_key
bt_adv_device_key(db, infuse_id, gps_time) == get_device_key(db, infuse_id, "bt_adv", gps_time)

\* DeviceDatabase.bt_gatt_network_key
bt_gatt_network_key(db, infuse_id, gps_time) == get_network_key(db, infuse_id, "bt_gatt", gps_time)

\* DeviceDatabase.bt_gatt_device_key
bt_gatt_device_key(db, infuse_id, gps_time) == get_device_key(db, infuse_id, "bt_gatt", gps_time)

\* The key lookup of the frame class that decodes an interface: SERIAL is
\* CtypeSerialFrame, BT_ADV is CtypeBtAdvFrame, BT_PERIPHERAL and BT_CENTRAL
\* are both CtypeBtGattFrame (decode_mapping). The registry's udp methods
\* have no caller in the package and are not modelled.
InterfaceKey(db, interface, auth, infuse_id, gps_time) ==
    CASE interface = "SERIAL" ->
            IF auth = "DEVICE" THEN serial_device_key(db, infuse_id, gps_time)
            ELSE serial_network_key(db, infuse_id, gps_time)
      [] interface = "BT_ADV" ->
            IF auth = "DEVICE" THEN bt_adv_device_key(db, infuse_id, gps_time)
            ELSE bt_adv_network_key(db, infuse_id, gps_time)
      [] interface \in {"BT_PERIPHERAL", "BT_CENTRAL"} ->
            IF auth = "DEVICE" THEN bt_gatt_device_key(db, infuse_id, gps_time)
            ELSE bt_gatt_network_key(db, infuse_id, gps_time)

\* The exceptions that are NoKeyError
NoKeyErrors == {"UnknownNetworkError", "DeviceUnknownDeviceKey", "DeviceUnknownNetworkKey"}

\* epacket.interface.ID: the interface a value of the interface byte names
InterfaceOf == <<"SERIAL", "UDP", "BT_ADV", "BT_PERIPHERAL", "BT_CENTRAL">>

\* The keys of decode_mapping
DecodeMapping == {"BT_ADV", "BT_PERIPHERAL", "BT_CENTRAL"}

\* sizeof(BluetoothLeAddr.CtypesFormat)
BtAddrSize == 7

\* sizeof(CtypeV0VersionedFrame)
VersionedFrameSize == 23

\* sizeof(CtypePacketReceived.DecryptedHeader)
DecryptedHeaderSize == 20

\* InterfaceAddress.from_bytes for a Bluetooth address: the type byte, then
\* the 48-bit value stored little endian.  The value is the tuple of its 6
\* bytes, most significant first.
BluetoothLeAddr(stream) == [addr_type |-> stream[1], addr_val |-> Reverse(SubSeq(stream, 2, 7))]

\* A common header whose rssi property returns the byte as stored
CommonHeaderUnsigned(b) ==
    [len |-> FromU16LE(SubSeq(b, 1, 2)) % 32768,
     encrypted |-> FromU16LE(SubSeq(b, 1, 2)) \div 32768 = 1,
     rssi |-> b[3],
     if |-> b[4]]

\* CtypePacketReceived.CommonHeader.from_buffer_copy and its properties
CommonHeaderFrom(b) ==
    [len |-> FromU16LE(SubSeq(b, 1, 2)) % 32768,
     encrypted |-> FromU16LE(SubSeq(b, 1, 2)) \div 32768 = 1,
     rssi |-> 0 - b[3],
     if |-> b[4]]

\* CtypePacketReceived.DecryptedHeader.from_buffer_copy and its properties
DecryptedHeaderFrom(b) ==
    [device_id |-> Reverse(SubSeq(b, 1, 8)), gps_time |-> SubSeq(b, 9, 12), type |-> b[13],
     flags |-> FromU16LE(SubSeq(b, 14, 15)), sequence |-> FromU16LE(SubSeq(b, 16, 17)),
     key_id |-> FromU24LE(SubSeq(b, 18, 20))]

\* What handling one record of a container leaves: the registry, the
\* exception raised and the packet, None when the record was skipped
Inner(db, exc, packet) == [db |-> db, exc |-> exc, packet |-> packet]

\* HopReceived of a record of a container
BtHop(device_id, interface, addr, flags, key_identifier, gps_time, sequence, rssi) ==
    [infuse_id |-> device_id, interface |-> interface, interface_address |-> addr,
     auth |-> IF IsDeviceEncrypted(flags) THEN "DEVICE" ELSE "NETWORK",
     key_identifier |-> key_identifier, gps_time |-> gps_time, sequence |-> sequence,
     rssi |-> rssi]

\* from_serial, an encrypted record once its key was looked up (k) and the
\* payload decrypted (d): NoKeyError skips the record
InnerDecrypted(carrier, common, interface, addr, header, k, d) ==
    IF k.exc \in NoKeyErrors THEN Inner(k.db, "none", None)
    ELSE IF k.exc # "none" THEN Inner(k.db, k.exc, None)
    ELSE IF d.exc # "none" THEN Inner(k.db, d.exc, None)
    ELSE IF header.type \notin InfuseTypeValues THEN Inner(k.db, "ValueError", None)
    ELSE Inner(k.db, "none",
               Some([route |-> <<BtHop(header.device_id, interface, addr, header.flags,
                                       header.key_metadata, header.gps_time,
                                       header.sequence, common.rssi), carrier>>,
                     ptype |-> header.type, payload |-> d.plain]))

\* CtypeBtAdvFrame.decrypt and CtypeBtGattFrame.decrypt inside from_serial:
\* the registry observes the header, then the key is looked up and the tag
\* verified.  A frame shorter than a tag cannot verify.
InnerKeyed(carrier, common, interface, addr, frame, tag, header, o) ==
    Only({InnerDecrypted(carrier, common, interface, addr, header, k,
                         IF k.exc # "none" \/ ~tag.some \/ Len(frame) < VersionedFrameSize + 16
                         THEN [exc |-> "InvalidTag", plain |-> <<>>]
                         ELSE chachapoly_decrypt(
                                  k.key.val, SubSeq(frame, 1, 11), SubSeq(frame, 12, 23),
                                  [ct |-> SubSeq(frame, 24, Len(frame) - 16), tag |-> tag.val])) :
          k \in {IF o.exc # "none" THEN o
                 ELSE InterfaceKey(o.db, interface,
                                   IF IsDeviceEncrypted(header.flags) THEN "DEVICE"
                                   ELSE "NETWORK",
                                   header.device_id, header.gps_time)}})

\* from_serial, "if common_header.encrypted"
InnerEncrypted(db, carrier, common, interface, addr, frame, tag) ==
    IF Len(frame) < VersionedFrameSize THEN Inner(db, "ValueError", None)
    ELSE Only({IF interface = "BT_ADV" /\ IsDeviceEncrypted(header.flags)
               THEN Inner(db, "NotImplementedError", None)
               ELSE InnerKeyed(carrier, common, interface, addr, frame, tag, header,
                               IF IsDeviceEncrypted(header.flags)
                               THEN observe_device(db, header.device_id, None,
                                                   Some(header.key_metadata))
                               ELSE observe_device(db, header.device_id,
                                                   Some(header.key_metadata), None)) :
               header \in {ParseHeader(frame)}})

\* from_serial, the record that is not encrypted: a decrypted header, then
\* the payload
InnerPlain(db, carrier, common, interface, addr, bytes) ==
    IF Len(bytes) < DecryptedHeaderSize THEN Inner(db, "ValueError", None)
    ELSE Only({IF h.type \notin InfuseTypeValues THEN Inner(db, "ValueError", None)
               ELSE Inner(db, "none",
                          Some([route |-> <<BtHop(h.device_id, interface, addr, h.flags,
                                                  h.key_id, h.gps_time, h.sequence,
                                                  common.rssi), carrier>>,
                                ptype |-> h.type,
                                payload |-> Slice(bytes, DecryptedHeaderSize, Len(bytes))])) :
               h \in {DecryptedHeaderFrom(bytes)}})

\* from_serial, one turn of the container loop: packet_bytes is the record
\* without its common header
InnerRecord(db, carrier, common, packet_bytes, tag) ==
    IF common.if >= Len(InterfaceOf) THEN Inner(db, "ValueError", None)
    ELSE IF InterfaceOf[common.if + 1] \notin DecodeMapping
    THEN Inner(db, "NotImplementedError", None)
    ELSE IF Len(packet_bytes) < BtAddrSize THEN Inner(db, "ValueError", None)
    ELSE IF common.encrypted
    THEN InnerEncrypted(db, carrier, common, InterfaceOf[common.if + 1],
                        BluetoothLeAddr(packet_bytes),
                        Slice(packet_bytes, BtAddrSize, Len(packet_bytes)), tag)
    ELSE InnerPlain(db, carrier, common, InterfaceOf[common.if + 1],
                    BluetoothLeAddr(packet_bytes),
                    Slice(packet_bytes, BtAddrSize, Len(packet_bytes)))

\* The container loop of PacketReceived.from_serial.  A frame keeps the
\* Poly1305 tags of its records apart from the bytes, one per record in
\* encoded order; their 16 bytes in the payload are zeros.  A record
\* shorter than its common header leaves no bytes for the address, and
\* from_bytes raises.
RECURSIVE ContainerLoop(_, _, _, _, _)
ContainerLoop(db, carrier, buffer, tags, packets) ==
    IF buffer = <<>> THEN [db |-> db, exc |-> "none", packets |-> packets]
    ELSE IF Len(buffer) < CommonHeaderSize
    THEN [db |-> db, exc |-> "ValueError", packets |-> <<>>]
    ELSE Only({IF r.exc # "none" THEN [db |-> r.db, exc |-> r.exc, packets |-> <<>>]
               ELSE ContainerLoop(r.db, carrier, Slice(buffer, common.len, Len(buffer)),
                                  IF tags = <<>> THEN <<>> ELSE Tail(tags),
                                  IF r.packet.some THEN Append(packets, r.packet.val)
                                  ELSE packets) :
               common \in {CommonHeaderFrom(buffer)},
               r \in {InnerRecord(db, carrier, CommonHeaderFrom(buffer),
                                  Slice(buffer, CommonHeaderSize, CommonHeaderFrom(buffer).len),
                                  IF tags = <<>> THEN None ELSE Some(tags[1]))}})

\* The tags of the records of a container frame
InnerTags(frame) == IF "inner" \in DOMAIN frame THEN frame.inner ELSE <<>>

\* PacketReceived.from_serial after the call of CtypeSerialFrame.decrypt
Unpack(r, tags) ==
    IF r.exc # "none" THEN [db |-> r.db, exc |-> r.exc, packets |-> <<>>, key |-> None]
    ELSE IF r.header.type \notin InfuseTypeValues
    THEN [db |-> r.db, exc |-> "ValueError", packets |-> <<>>, key |-> r.key]
    ELSE IF r.header.type # RECEIVED_EPACKET
    THEN [db |-> r.db, exc |-> "none",
          packets |-> <<[route |-> <<hop_received(r.header)>>, ptype |-> r.header.type,
                         payload |-> r.decrypted]>>,
          key |-> r.key]
    ELSE Only({[db |-> c.db, exc |-> c.exc, packets |-> c.packets, key |-> r.key] :
               c \in {ContainerLoop(r.db, hop_received(r.header), r.decrypted, tags, <<>>)}})

\* PacketReceived.from_serial
from_serial(db, frame) ==
    IF Len(frame.bytes) < VersionedFrameSize
    THEN [db |-> db, exc |-> "ValueError", packets |-> <<>>, key |-> None]
    ELSE Only({Unpack(r, InnerTags(frame)) : r \in {SerialFrameDecrypt(db, frame)}})

\* Bit k of the frame inverted (bit 0 is the least significant bit of byte 0;
\* the tag follows the ciphertext)
FlipBit(frame, k) ==
    LET n == 8 * Len(frame.bytes)
        i == (k \div 8) + 1
        w == 2 ^ (k % 8)
        b == frame.bytes[i]
    IN IF k < n
       THEN [frame EXCEPT !.bytes[i] = IF (b \div w) % 2 = 1 THEN b - w ELSE b + w]
       ELSE [frame EXCEPT !.tag.flip = {k - n}]

HopOutput(infuse_id, auth) == [infuse_id |-> infuse_id, interface |-> "SERIAL", auth |-> auth]

\* Routes handed to PacketOutput
Routes ==
    {<<HopOutput(id, auth)>> : id \in {IdA, IdB}, auth \in {"DEVICE", "NETWORK"}}
        \cup {<<HopOutput(IdA, "NETWORK"), HopOutput(IdB, "NETWORK")>>}

Entropies == {43981}

\* Device states the registry may hold for the gateway device
StatesA ==
    {[network_id |-> n, device_key_id |-> k, shared_key |-> s] :
        n \in {None, Some(1)}, k \in {None, Some(5)}, s \in {None, Some(101)}}

\* A shared key is stored by observe_security_state, which stores the
\* network id and the device key id with it
Consistent(d) == d.shared_key.some => (d.network_id.some /\ d.device_key_id.some)

StateB == [network_id |-> Some(1), device_key_id |-> Some(6), shared_key |-> Some(102)]

\* Registries at the start: the gateway, once known, is a known device
Registries ==
    {[gateway |-> g, devices |-> d, network_keys |-> {}, derived_keys |-> <<>>] :
        g \in {None, Some(IdA)},
        d \in UNION {[S -> StatesA \cup {StateB}] : S \in SUBSET {IdA, IdB}}}

RegistryOk(db) ==
    /\ db.gateway.some => IdA \in DOMAIN db.devices
    /\ \A id \in DOMAIN db.devices :
        /\ Consistent(db.devices[id])
        /\ (db.devices[id] = StateB) <=> (id = IdB)

NoTx == [route |-> <<>>, ptype |-> 0, payload |-> <<>>, exc |-> "none", key |-> None,
         key_metadata |-> None, gateway |-> None]

NoRx == [exc |-> "none", packets |-> <<>>, key |-> None]

CdInit ==
    /\ cd_db \in {db \in Registries : RegistryOk(db)}
    /\ cd_pc = "idle"
    /\ cd_tx = NoTx
    /\ cd_frame = None
    /\ cd_flip = None
    /\ cd_rx = NoRx

CdOff ==
    /\ cd_db = [gateway |-> None, devices |-> <<>>, network_keys |-> {}, derived_keys |-> <<>>]
    /\ cd_pc = "off"
    /\ cd_tx = NoTx
    /\ cd_frame = None
    /\ cd_flip = None
    /\ cd_rx = NoRx

\* PacketOutput(route, ptype, payload).to_serial(database)
CdToSerial ==
    /\ cd_pc = "idle"
    /\ UNCHANGED notCdVars
    /\ \E route \in Routes, ptype \in CdTypes, unix_time \in UnixTimes, entropy \in Entropies,
          payload \in SeqsOf(PayloadBytes, 0, MaxPayload) :
        LET r == to_serial(cd_db, route, ptype, payload, unix_time, entropy)
        IN /\ cd_db' = r.db
           /\ cd_tx' = [route |-> route, ptype |-> ptype, payload |-> payload, exc |-> r.exc,
                        key |-> r.key, key_metadata |-> r.key_metadata, gateway |-> cd_db.gateway]
           /\ cd_frame' = r.frame
           /\ cd_pc' = IF r.exc = "none" THEN "encoded" ELSE "failed"
    /\ UNCHANGED <<cd_flip, cd_rx>>

\* One bit of the frame is inverted on the way to the decoder
CdFlipBit ==
    /\ cd_pc = "encoded"
    /\ UNCHANGED notCdVars
    /\ \E k \in 0..(8 * Len(cd_frame.val.bytes) + TagBits - 1) :
        /\ cd_frame' = Some(FlipBit(cd_frame.val, k))
        /\ cd_flip' = Some(k)
    /\ cd_pc' = "tampered"
    /\ UNCHANGED <<cd_db, cd_tx, cd_rx>>

\* PacketReceived.from_serial(database, frame)
CdFromSerial ==
    /\ cd_pc \in {"encoded", "tampered"}
    /\ UNCHANGED notCdVars
    /\ \E r \in {from_serial(cd_db, cd_frame.val)} :
        /\ cd_db' = r.db
        /\ cd_rx' = [exc |-> r.exc, packets |-> r.packets, key |-> r.key]
    /\ cd_pc' = "decoded"
    /\ UNCHANGED <<cd_tx, cd_frame, cd_flip>>

CdNext ==
    \/ CdToSerial
    \/ CdFlipBit
    \/ CdFromSerial

\* ------------------------------------------------------------------
\* Serial framing (serial_comms.py)
\* ------------------------------------------------------------------
SYNC == <<213, 202>>

PingPayload == 77

\* Bounds of the framing model
MaxStream == 6

MaxChunk == 6

MaxPktLen == 2

\* Bytes that may arrive on the port: sync bytes, small lengths, a newline,
\* the ping payload
WireBytes == {0, 1, 10, 77, 202, 213}

PktBytes == {0, 77, 213}

\* SerialPort.write: sync, u16 little-endian length, packet
SerialWrite(packet) == SYNC \o U16LE(Len(packet)) \o packet

\* SerialPort.ping
SerialPing == SYNC \o <<1, 0>> \o <<PingPayload>>

\* What the generator yields after a resumption:
\* consumed = len(buffered) > 0 or packet is not None
ReconstructorYield(length, buffered, packet) ==
    [length |-> length, buffered |-> buffered,
     consumed |-> (Len(buffered) > 0 \/ packet.some), packet |-> packet]

\* ReconstructorSend with the length read big-endian
ReconstructorSendBigEndian(length, buffered, val) ==
    LET buf == Append(buffered, val)
    IN IF Len(buf) <= 2
       THEN IF val # SYNC[Len(buf)]
            THEN ReconstructorYield(length, <<>>, None)
            ELSE ReconstructorYield(length, buf, None)
       ELSE IF Len(buf) = 4
       THEN ReconstructorYield(256 * buf[3] + buf[4], buf, None)
       ELSE IF Len(buf) = 4 + length
       THEN ReconstructorYield(length, <<>>, Some(SubSeq(buf, 5, Len(buf))))
       ELSE ReconstructorYield(length, buf, None)

\* One resumption of the SerialFrame.reconstructor generator: the state is
\* (length, buffered), val is the byte sent, the result is the new state and
\* the (consumed, packet) pair of the next yield.
ReconstructorSend(length, buffered, val) ==
    LET buf == Append(buffered, val)
    IN IF Len(buf) <= 2
       THEN IF val # SYNC[Len(buf)]
            THEN ReconstructorYield(length, <<>>, None)
            ELSE ReconstructorYield(length, buf, None)
       ELSE IF Len(buf) = 4
       THEN ReconstructorYield(FromU16LE(SubSeq(buf, 3, 4)), buf, None)
       ELSE IF Len(buf) = 4 + length
       THEN ReconstructorYield(length, <<>>, Some(SubSeq(buf, 5, Len(buf))))
       ELSE ReconstructorYield(length, buf, None)

\* chr(b) == "\n"
Newline == 10

\* A line that collects every byte, frame bytes included
LogLineEveryByte(line, frame_byte, b) == IF b = Newline THEN <<>> ELSE Append(line, b)

\* self._line after a byte: a byte that is not part of a frame ends the
\* line when it is a newline and is appended to it otherwise
LogLine(line, frame_byte, b) ==
    IF frame_byte THEN line ELSE IF b = Newline THEN <<>> ELSE Append(line, b)

\* Where the byte went
Routed(frame_byte, b) ==
    IF frame_byte THEN "frame" ELSE IF b = Newline THEN "newline" ELSE "appended"

\* The byte loop of SerialRxThread._iter over one read: st carries the
\* reconstructor state and the histories; a frame is handled when it is
\* truthy (not None, not empty).
RECURSIVE RxLoop(_, _)
RxLoop(st, rx) ==
    IF rx = <<>> THEN st
    ELSE LET r == ReconstructorSend(st.length, st.buffered, Head(rx))
             emit == r.packet.some /\ r.packet.val # <<>>
         IN RxLoop([length   |-> r.length,
                    buffered |-> r.buffered,
                    out      |-> Append(st.out, <<r.consumed, r.packet>>),
                    frames   |-> IF emit THEN Append(st.frames, r.packet.val)
                                 ELSE st.frames,
                    line     |-> LogLine(st.line, r.consumed, Head(rx)),
                    log      |-> IF ~r.consumed /\ Head(rx) = Newline
                                 THEN Append(st.log, st.line) ELSE st.log,
                    routed   |-> Append(st.routed, Routed(r.consumed, Head(rx)))],
                   Tail(rx))

\* A reconstructor created anew (SerialFrame.reconstructor() primed with
\* send(None))
RxFresh ==
    [length |-> 0, buffered |-> <<>>, out |-> <<>>, frames |-> <<>>,
     line |-> <<>>, log |-> <<>>, routed |-> <<>>]

\* _iter starting from a new reconstructor on every read
RxIterStartFresh(length, buffered) == [length |-> 0, buffered |-> <<>>]

\* The reconstructor state that one call of _iter starts from: the generator
\* is created once in __init__ and kept in self._reconstructor
RxIterStart(length, buffered) == [length |-> length, buffered |-> buffered]

\* What one port.read_bytes call may return when at most n more bytes are
\* modelled: arbitrary bytes (log output, noise, partial frames), a frame the
\* peer wrote with SerialPort.write, or the ping sequence
RxReads(n) ==
    {rx \in SeqsOf(WireBytes, 1, Min(MaxChunk, n))
          \cup {SerialWrite(p) : p \in SeqsOf(PktBytes, 1, MaxPktLen)}
          \cup {SerialPing} : Len(rx) <= n}

\* Number of frames completed in this read that began in an earlier read:
\* only the first packet of a read can have begun before it
SplitFrames(out) ==
    LET done == {i \in 1..Len(out) : out[i][2].some}
    IN IF done = {} THEN 0
       ELSE LET i == CHOOSE j \in done : \A k \in done : j <= k
            IN IF 4 + Len(out[i][2].val) > i THEN 1 ELSE 0

\* SerialRxThread._iter with rx the bytes returned by port.read_bytes
RxIter ==
    /\ UNCHANGED notFrameVars
    /\ \E rx \in RxReads(MaxStream - Len(rx_consumed)) :
        LET s0 == RxIterStart(rx_length, rx_buffered)
            st == RxLoop([length |-> s0.length, buffered |-> s0.buffered,
                          out |-> <<>>, frames |-> <<>>,
                          line |-> rx_line, log |-> <<>>, routed |-> <<>>], rx)
        IN /\ rx_length' = st.length
           /\ rx_buffered' = st.buffered
           /\ rx_out' = rx_out \o st.out
           /\ rx_frames' = rx_frames \o st.frames
           /\ rx_consumed' = rx_consumed \o rx
           /\ rx_split' = rx_split + SplitFrames(st.out)
           /\ rx_line' = st.line
           /\ rx_log' = rx_log \o st.log
           /\ rx_routed' = rx_routed \o st.routed

FrameInit ==
    /\ rx_length = 0
    /\ rx_buffered = <<>>
    /\ rx_consumed = <<>>
    /\ rx_out = <<>>
    /\ rx_frames = <<>>
    /\ rx_split = 0
    /\ rx_line = <<>>
    /\ rx_log = <<>>
    /\ rx_routed = <<>>

FrameOff == FrameInit

FrameNext == RxIter

\* ------------------------------------------------------------------
\* Binary patch engine (diff.py)
\* ------------------------------------------------------------------
\* Longest original and longest new array of the exhaustive input domain
MaxOrigLen == 3

MaxNewLen == 4

\* Longest original and new array whose patch is also damaged byte by byte
MaxTamperLen == 1

\* The byte values the arrays are built from
DiffBytes == {0, 1}

\* The outcome of a call: the value returned, or the exception raised
Ok(v) == [exc |-> "none", val |-> v]

Raise(e) == [exc |-> e, val |-> <<>>]

\* seq[start:stop] of Python: negative indexes count from the end and both
\* ends are clamped to the sequence
PyIdx(i, n) == IF i < 0 THEN Max(i + n, 0) ELSE Min(i, n)

PySlice(b, start, stop) ==
    IF PyIdx(stop, Len(b)) <= PyIdx(start, Len(b)) THEN <<>>
    ELSE SubSeq(b, PyIdx(start, Len(b)) + 1, PyIdx(stop, Len(b)))

\* n * b"\x00"
Zeros(n) == [i \in 1..Max(n, 0) |-> 0]

\* Python integers are unbounded; an offset or length is kept at most Huge,
\* which lies beyond every array here and which no run of address shifts in
\* a patch of these sizes brings back inside one
Huge == 32 * 16777216

Sat(n) == IF n > Huge THEN Huge ELSE n

\* ctypes.c_uint32 read from four little-endian bytes
U32Value(b) ==
    IF b[4] >= 32 THEN Huge
    ELSE b[1] + 256 * b[2] + 65536 * b[3] + 16777216 * b[4]

\* ctypes.c_int8 and ctypes.c_int16 read from little-endian bytes
S8Value(b) == IF b[1] >= 128 THEN b[1] - 256 ELSE b[1]

S16Value(b) ==
    IF b[2] >= 128 THEN b[1] + 256 * b[2] - 65536 ELSE b[1] + 256 * b[2]

\* ---- binascii.crc32: the CRC-32 of zlib (reflected polynomial
\* 0xEDB88320, initial value and final xor 0xFFFFFFFF); a CRC is held as its
\* four little-endian bytes
Crc32Poly == <<32, 131, 184, 237>>

Xor32(a, b) ==
    <<Xor8(a[1], b[1]), Xor8(a[2], b[2]), Xor8(a[3], b[3]), Xor8(a[4], b[4])>>

Shr1(c) ==
    <<(c[1] \div 2) + 128 * (c[2] % 2), (c[2] \div 2) + 128 * (c[3] % 2),
      (c[3] \div 2) + 128 * (c[4] % 2), c[4] \div 2>>

RECURSIVE Crc32TableEntry(_, _)
Crc32TableEntry(c, k) ==
    IF k = 0 THEN c
    ELSE Crc32TableEntry(IF c[1] % 2 = 1 THEN Xor32(Shr1(c), Crc32Poly)
                         ELSE Shr1(c), k - 1)

Crc32Table == [i \in 0..255 |-> Crc32TableEntry(<<i, 0, 0, 0>>, 8)] @@ <<>>

Xor8Table == [a \in 0..255 |-> [b \in 0..255 |-> Xor8(a, b)] @@ <<>>] @@ <<>>

Crc32Shift(c, t) ==
    <<Xor8Table[c[2]][t[1]], Xor8Table[c[3]][t[2]], Xor8Table[c[4]][t[3]], t[4]>>

Crc32Update(c, byte) == Crc32Shift(c, Crc32Table[Xor8Table[c[1]][byte]])

\* The bytes d[i] .. d[last] taken into the CRC c  (c[1] < 0 never holds;
\* testing it gives c its value before the next byte)
RECURSIVE Crc32Bytes(_, _, _, _)
Crc32Bytes(d, i, last, c) ==
    IF i > last \/ c[1] < 0 THEN c
    ELSE Crc32Bytes(d, i + 1, last, Crc32Update(c, d[i]))

\* The bytes from d[i] on taken into the CRC c, sixteen at a time
RECURSIVE Crc32Fold(_, _, _)
Crc32Fold(d, i, c) ==
    IF i > Len(d) \/ c[1] < 0 THEN c
    ELSE Crc32Fold(d, i + 16, Crc32Bytes(d, i, Min(i + 15, Len(d)), c))

Crc32Final(c) == <<255 - c[1], 255 - c[2], 255 - c[3], 255 - c[4]>>

crc32(data) == Crc32Final(Crc32Fold(data, 1, <<255, 255, 255, 255>>))

\* ---- OpCode
COPY_LEN_U4 == 0

COPY_LEN_U12 == 16

COPY_LEN_U20 == 32

COPY_LEN_U32 == 48

WRITE_LEN_U4 == 64

WRITE_LEN_U12 == 80

WRITE_LEN_U20 == 96

WRITE_LEN_U32 == 112

WRITE_CACHED == 128

ADDR_SHIFT_S8 == 144

ADDR_SHIFT_S16 == 160

ADDR_SET_U32 == 176

PATCH == 192

OPCODE_MASK == 240

\* OpCode.from_byte(byte) without the enum lookup, and OpCode.data(byte)
OpBits(byte) == (byte \div 16) * 16

OpData(byte) == byte % 16

\* The masked values that name no member of OpCode
NotAnOpCode == {208, 224}

\* ---- the instruction objects
CopyInstr(length, original_offset) ==
    [op |-> "COPY", length |-> length, original_offset |-> original_offset]

WriteInstr(data) == [op |-> "WRITE", data |-> data]

SetAddrInstr(old_addr, new_addr) ==
    [op |-> "ADDR", old |-> old_addr, new |-> new_addr,
     shift |-> new_addr - old_addr]

WriteCachedInstr(idx, write_len) ==
    [op |-> "CACHED", idx |-> idx, write_len |-> write_len]

PatchInstr(operations) == [op |-> "PATCH", operations |-> operations]

\* sizeof of the ctypes class chosen for a length
LenHdrSize(n) ==
    IF n < 16 THEN 1 ELSE IF n < 4096 THEN 2 ELSE IF n < 1048576 THEN 3 ELSE 5

\* The opcode variants of COPY and of WRITE, by width of the length field
CopyOps == <<COPY_LEN_U4, COPY_LEN_U12, COPY_LEN_U20, COPY_LEN_U32>>

WriteOps == <<WRITE_LEN_U4, WRITE_LEN_U12, WRITE_LEN_U20, WRITE_LEN_U32>>

\* A length field whose narrowest variant takes one length too many
LenHdrBytesWide(ops, n) ==
    IF n <= 16 THEN <<ops[1] + n>>
    ELSE IF n < 4096 THEN <<ops[2] + (n \div 256), n % 256>>
    ELSE IF n < 1048576 THEN <<ops[3] + (n \div 65536)>> \o U16LE(n % 65536)
    ELSE <<ops[4]>> \o U32LE(n)

\* The opcode byte and the length field of a COPY or a WRITE of n bytes
LenHdrBytes(ops, n) ==
    IF n < 16 THEN <<ops[1] + n>>
    ELSE IF n < 4096 THEN <<ops[2] + (n \div 256), n % 256>>
    ELSE IF n < 1048576 THEN <<ops[3] + (n \div 65536)>> \o U16LE(n % 65536)
    ELSE <<ops[4]>> \o U32LE(n)

AddrSize(shift) ==
    IF -128 <= shift /\ shift <= 127 THEN 2
    ELSE IF -32768 <= shift /\ shift <= 32767 THEN 3 ELSE 5

\* PatchInstr.__len__
RECURSIVE PatchOpsLen(_)
PatchOpsLen(ops) ==
    IF ops = <<>> THEN 0
    ELSE (IF ops[1].op = "COPY" THEN 1
          ELSE IF ops[1].op = "WRITE"
          THEN (IF Len(ops[1].data) > 1 THEN 1 ELSE 0) + Len(ops[1].data)
          ELSE 0) + PatchOpsLen(Tail(ops))

\* len(instr)
InstrLen(i) ==
    IF i.op = "COPY" THEN LenHdrSize(i.length)
    ELSE IF i.op = "WRITE" THEN LenHdrSize(Len(i.data)) + Len(i.data)
    ELSE IF i.op = "ADDR" THEN AddrSize(i.shift)
    ELSE IF i.op = "CACHED" THEN 1
    ELSE 2 + PatchOpsLen(i.operations)

\* PatchInstr.__bytes__ after the opcode byte: the operations are taken two
\* at a time, a copy and then a write
RECURSIVE PatchOpsBytes(_, _)
PatchOpsBytes(ops, x) ==
    IF ops = <<>> THEN Ok(x \o <<0>>)
    ELSE IF ops[1].op # "COPY" THEN Raise("AssertionError")
    ELSE IF ops[1].length >= 128 \/ ops[1].length = 0
    THEN Raise("AssertionError")
    ELSE IF Len(ops) = 1 THEN Ok(x \o <<ops[1].length, 0>>)
    ELSE IF ops[2].op = "COPY" THEN Raise("AttributeError")
    ELSE IF ops[2].op # "WRITE" THEN Raise("AssertionError")
    ELSE IF Len(ops[2].data) >= 256 \/ Len(ops[2].data) = 0
    THEN Raise("AssertionError")
    ELSE IF Len(ops[2].data) = 1
    THEN PatchOpsBytes(SubSeq(ops, 3, Len(ops)),
                       x \o <<128 + ops[1].length>> \o ops[2].data)
    ELSE PatchOpsBytes(SubSeq(ops, 3, Len(ops)),
                       x \o <<ops[1].length, Len(ops[2].data)>> \o ops[2].data)

\* bytes(instr)
InstrBytes(i) ==
    IF i.op = "COPY" THEN Ok(LenHdrBytes(CopyOps, i.length))
    ELSE IF i.op = "WRITE"
    THEN Ok(LenHdrBytes(WriteOps, Len(i.data)) \o i.data)
    ELSE IF i.op = "ADDR"
    THEN Ok(IF AddrSize(i.shift) = 2 THEN <<ADDR_SHIFT_S8, i.shift % 256>>
            ELSE IF AddrSize(i.shift) = 3
            THEN <<ADDR_SHIFT_S16>> \o U16LE(i.shift % 65536)
            ELSE <<ADDR_SET_U32>> \o U32LE(i.new))
    ELSE IF i.op = "CACHED" THEN Ok(<<WRITE_CACHED + i.idx>>)
    ELSE PatchOpsBytes(i.operations, <<PATCH>>)

\* ---- decoding
\* What from_bytes returns: (instruction, bytes consumed, original_offset)
Decoded(instr, length, original_offset) ==
    [exc |-> "none", instr |-> instr, length |-> length,
     original_offset |-> original_offset]

DecodeError(e) ==
    [exc |-> e, instr |-> <<>>, length |-> 0, original_offset |-> 0]

\* The length property of the CopyU4 .. CopyU32 and WriteU4 .. WriteU32
\* structures read at offset (counted from 0)
LenField(b, offset) ==
    IF OpBits(b[offset + 1]) % 64 = COPY_LEN_U4 THEN OpData(b[offset + 1])
    ELSE IF OpBits(b[offset + 1]) % 64 = COPY_LEN_U12
    THEN OpData(b[offset + 1]) * 256 + b[offset + 2]
    ELSE IF OpBits(b[offset + 1]) % 64 = COPY_LEN_U20
    THEN OpData(b[offset + 1]) * 65536 + b[offset + 2] + 256 * b[offset + 3]
    ELSE U32Value(SubSeq(b, offset + 2, offset + 5))

\* sizeof of the structure the opcode at offset selects
LenFieldSize(b, offset) ==
    IF OpBits(b[offset + 1]) % 64 = COPY_LEN_U4 THEN 1
    ELSE IF OpBits(b[offset + 1]) % 64 = COPY_LEN_U12 THEN 2
    ELSE IF OpBits(b[offset + 1]) % 64 = COPY_LEN_U20 THEN 3 ELSE 5

\* CopyInstr.from_bytes
CopyFromBytes(b, offset, original_offset) ==
    IF Len(b) - offset < LenFieldSize(b, offset) THEN DecodeError("ValueError")
    ELSE IF LenField(b, offset) = 0 THEN DecodeError("AssertionError")
    ELSE Decoded(CopyInstr(LenField(b, offset), -1), LenFieldSize(b, offset),
                 Sat(original_offset + LenField(b, offset)))

\* WriteInstr.from_bytes
WriteFromBytes(b, offset, original_offset) ==
    IF Len(b) - offset < LenFieldSize(b, offset) THEN DecodeError("ValueError")
    ELSE IF PySlice(b, offset + LenFieldSize(b, offset),
                    offset + LenFieldSize(b, offset) + LenField(b, offset)) = <<>>
    THEN DecodeError("AssertionError")
    ELSE Decoded(WriteInstr(PySlice(b, offset + LenFieldSize(b, offset),
                    offset + LenFieldSize(b, offset) + LenField(b, offset))),
                 LenFieldSize(b, offset) + LenField(b, offset),
                 Sat(original_offset + LenField(b, offset)))

\* WriteCachedInstr.from_bytes
WriteCachedFromBytes(b, offset, original_offset, write_cache) ==
    IF OpData(b[offset + 1]) >= Len(write_cache) THEN DecodeError("IndexError")
    ELSE Decoded(WriteCachedInstr(OpData(b[offset + 1]),
                                  Len(write_cache[OpData(b[offset + 1]) + 1])),
                 1,
                 Sat(original_offset + Len(write_cache[OpData(b[offset + 1]) + 1])))

\* SetAddrInstr.from_bytes: it compares the whole opcode byte
SetAddrFromBytes(b, offset, original_offset) ==
    IF b[offset + 1] = ADDR_SHIFT_S8
    THEN IF Len(b) - offset < 2 THEN DecodeError("ValueError")
         ELSE Decoded(SetAddrInstr(original_offset,
                          original_offset + S8Value(SubSeq(b, offset + 2, offset + 2))),
                      2, original_offset + S8Value(SubSeq(b, offset + 2, offset + 2)))
    ELSE IF b[offset + 1] = ADDR_SHIFT_S16
    THEN IF Len(b) - offset < 3 THEN DecodeError("ValueError")
         ELSE Decoded(SetAddrInstr(original_offset,
                          original_offset + S16Value(SubSeq(b, offset + 2, offset + 3))),
                      3, original_offset + S16Value(SubSeq(b, offset + 2, offset + 3)))
    ELSE IF b[offset + 1] = ADDR_SET_U32
    THEN IF Len(b) - offset < 5 THEN DecodeError("ValueError")
         ELSE Decoded(SetAddrInstr(original_offset,
                          U32Value(SubSeq(b, offset + 2, offset + 5))),
                      5, U32Value(SubSeq(b, offset + 2, offset + 5)))
    ELSE DecodeError("RuntimeError")

\* PatchInstr.from_bytes, the loop: length counts the bytes consumed so far;
\* PatchCopyFromBytes is the loop from its top, PatchWriteFromBytes the loop
\* after its copy (flagged: the copy byte had 0x80 set)
RECURSIVE PatchCopyFromBytes(_, _, _, _, _)
RECURSIVE PatchWriteFromBytes(_, _, _, _, _, _)
PatchCopyFromBytes(b, offset, length, original_offset, operations) ==
    IF offset + length >= Len(b) THEN DecodeError("IndexError")
    ELSE IF b[offset + length + 1] = 0
    THEN Decoded(PatchInstr(operations), length + 1, original_offset)
    ELSE IF b[offset + length + 1] % 128 = 0 THEN DecodeError("AssertionError")
    ELSE PatchWriteFromBytes(b, offset, length + 1,
             Sat(original_offset + (b[offset + length + 1] % 128)),
             Append(operations, CopyInstr(b[offset + length + 1] % 128, -1)),
             b[offset + length + 1] >= 128)

PatchWriteFromBytes(b, offset, length, original_offset, operations, flagged) ==
    IF flagged
    THEN IF PySlice(b, offset + length, offset + length + 1) = <<>>
         THEN DecodeError("AssertionError")
         ELSE PatchCopyFromBytes(b, offset, length + 1, Sat(original_offset + 1),
                  Append(operations,
                         WriteInstr(PySlice(b, offset + length, offset + length + 1))))
    ELSE IF offset + length >= Len(b) THEN DecodeError("IndexError")
    ELSE IF b[offset + length + 1] = 0
    THEN Decoded(PatchInstr(operations), length + 1, original_offset)
    ELSE IF PySlice(b, offset + length + 1,
                    offset + length + 1 + b[offset + length + 1]) = <<>>
    THEN DecodeError("AssertionError")
    ELSE PatchCopyFromBytes(b, offset, length + 1 + b[offset + length + 1],
             Sat(original_offset + b[offset + length + 1]),
             Append(operations,
                    WriteInstr(PySlice(b, offset + length + 1,
                                   offset + length + 1 + b[offset + length + 1]))))

\* PatchInstr.from_bytes
PatchFromBytes(b, offset, original_offset) ==
    IF b[offset + 1] # PATCH THEN DecodeError("AssertionError")
    ELSE PatchCopyFromBytes(b, offset, 1, original_offset, <<>>)

\* Instr.from_bytes (offset < len(b))
InstrFromBytes(b, offset, original_offset, write_cache) ==
    IF OpBits(b[offset + 1]) \in NotAnOpCode THEN DecodeError("ValueError")
    ELSE IF OpBits(b[offset + 1]) <= COPY_LEN_U32
    THEN CopyFromBytes(b, offset, original_offset)
    ELSE IF OpBits(b[offset + 1]) <= WRITE_LEN_U32
    THEN WriteFromBytes(b, offset, original_offset)
    ELSE IF OpBits(b[offset + 1]) = WRITE_CACHED
    THEN WriteCachedFromBytes(b, offset, original_offset, write_cache)
    ELSE IF OpBits(b[offset + 1]) \in {ADDR_SHIFT_S8, ADDR_SHIFT_S16, ADDR_SET_U32}
    THEN SetAddrFromBytes(b, offset, original_offset)
    ELSE IF OpBits(b[offset + 1]) = PATCH
    THEN PatchFromBytes(b, offset, original_offset)
    ELSE DecodeError("NotImplementedError")

\* ---- the patch file
\* PatchHeader: magic, (length, crc) of the original, the constructed and
\* the patch data, write_cache, header_crc
HeaderSize == 160

cache_size == 128

\* magic_value 0xBA854092 as it lies in the file
magic_value == <<146, 64, 133, 186>>

\* The part of the header that header_crc is computed over:
\* sizeof(hdr) - sizeof(c_uint32)
HeaderCrcLenNoCache == HeaderSize - 4 - cache_size

HeaderCrcLen == HeaderSize - 4

HdrMagic(bin) == SubSeq(bin, 1, 4)

HdrOriginalLen(bin) == SubSeq(bin, 5, 8)

HdrOriginalCrc(bin) == SubSeq(bin, 9, 12)

HdrConstructedLen(bin) == SubSeq(bin, 13, 16)

HdrConstructedCrc(bin) == SubSeq(bin, 17, 20)

HdrPatchLen(bin) == SubSeq(bin, 21, 24)

HdrPatchCrc(bin) == SubSeq(bin, 25, 28)

HdrWriteCache(bin) == SubSeq(bin, 29, 28 + cache_size)

HdrHeaderCrc(bin) == SubSeq(bin, HeaderSize - 3, HeaderSize)

\* _patch_load, the write cache: entries [len][bytes] up to a zero length
RECURSIVE LoadCache(_, _)
LoadCache(cache_bin, cache) ==
    IF cache_bin = <<>> \/ cache_bin[1] = 0 THEN cache
    ELSE LoadCache(PySlice(cache_bin, 1 + cache_bin[1], Len(cache_bin)),
                   Append(cache, PySlice(cache_bin, 1, 1 + cache_bin[1])))

\* _patch_load, the instruction loop; LoadStep continues it with the
\* instruction decoded at patch_offset
RECURSIVE LoadInstructions(_, _, _, _, _)
LoadStep(data, patch_offset, cache, instructions, d) ==
    IF d.exc # "none" THEN Raise(d.exc)
    ELSE LoadInstructions(data, patch_offset + d.length, d.original_offset,
                          cache, Append(instructions, d.instr))

LoadInstructions(data, patch_offset, original_offset, cache, instructions) ==
    IF patch_offset >= Len(data) THEN Ok(instructions)
    ELSE LoadStep(data, patch_offset, cache, instructions,
                  InstrFromBytes(data, patch_offset, original_offset, cache))

\* What _patch_load returns: (metadata, cache, instructions); the metadata
\* are read from the header bytes where they are used
Loaded(cache, r) ==
    [exc |-> r.exc, why |-> "", cache |-> cache, instructions |-> r.val]

LoadError(e, why) ==
    [exc |-> e, why |-> why, cache |-> <<>>, instructions |-> <<>>]

PatchBody(patch_binary) == PySlice(patch_binary, HeaderSize, Len(patch_binary))

\* _patch_load
PatchLoad(patch_binary) ==
    IF Len(patch_binary) < HeaderSize THEN LoadError("ValueError", "")
    ELSE IF crc32(PySlice(patch_binary, 0, HeaderCrcLen)) # HdrHeaderCrc(patch_binary)
    THEN LoadError("ValidationError", "header")
    ELSE IF U32LE(Len(PatchBody(patch_binary))) # HdrPatchLen(patch_binary)
    THEN LoadError("ValidationError", "data length")
    ELSE IF crc32(PatchBody(patch_binary)) # HdrPatchCrc(patch_binary)
    THEN LoadError("ValidationError", "data CRC")
    ELSE Loaded(LoadCache(HdrWriteCache(patch_binary), <<>>),
                LoadInstructions(PatchBody(patch_binary), 0, 0,
                                 LoadCache(HdrWriteCache(patch_binary), <<>>), <<>>))

\* ---- patch
\* The loop of patch over the instructions (and over the operations of a
\* PATCH): st is <<patched, orig_offset>>  (st[2] < -Huge never holds;
\* testing it gives st its value before the next instruction)
CopyOut(bin_original, st, length) ==
    <<st[1] \o PySlice(bin_original, st[2], st[2] + length), Sat(st[2] + length)>>

WriteOut(st, data) == <<st[1] \o data, Sat(st[2] + Len(data))>>

RECURSIVE ApplyInstructions(_, _, _, _)
ApplyInstr(bin_original, cache, st, instr) ==
    IF instr.op = "COPY" THEN CopyOut(bin_original, st, instr.length)
    ELSE IF instr.op = "WRITE" THEN WriteOut(st, instr.data)
    ELSE IF instr.op = "CACHED" THEN WriteOut(st, cache[instr.idx + 1])
    ELSE IF instr.op = "ADDR" THEN <<st[1], instr.new>>
    ELSE ApplyInstructions(bin_original, cache, instr.operations, st)

ApplyInstructions(bin_original, cache, instructions, st) ==
    IF instructions = <<>> \/ st[2] < -Huge THEN st
    ELSE ApplyInstructions(bin_original, cache, Tail(instructions),
                           ApplyInstr(bin_original, cache, st, instructions[1]))

\* What patch returns or raises
Patched(out) == [exc |-> "none", why |-> "", val |-> out]

PatchError(e, why) == [exc |-> e, why |-> why, val |-> <<>>]

\* patch, after the instructions ran
PatchCheck(bin_patch, patched) ==
    IF U32LE(Len(patched)) # HdrConstructedLen(bin_patch)
    THEN PatchError("ValidationError", "constructed length")
    ELSE IF crc32(patched) # HdrConstructedCrc(bin_patch)
    THEN PatchError("ValidationError", "constructed CRC")
    ELSE Patched(patched)

\* patch, after _patch_load returned l
PatchLoaded(bin_original, bin_patch, l) ==
    IF l.exc # "none" THEN PatchError(l.exc, l.why)
    ELSE IF U32LE(Len(bin_original)) # HdrOriginalLen(bin_patch)
    THEN PatchError("ValidationError", "original length")
    ELSE IF crc32(bin_original) # HdrOriginalCrc(bin_patch)
    THEN PatchError("ValidationError", "original CRC")
    ELSE PatchCheck(bin_patch,
             ApplyInstructions(bin_original, l.cache, l.instructions, <<<<>>, 0>>)[1])

\* diff.patch
patch(bin_original, bin_patch) ==
    PatchLoaded(bin_original, bin_patch, PatchLoad(bin_patch))

\* diff.dump: it prints what _patch_load returned
DumpLoaded(l) == [exc |-> l.exc, why |-> l.why]

dump(bin_patch) == DumpLoaded(PatchLoad(bin_patch))

\* ---- generation
\* _naive_diff, pre_hash[val]: the offsets of the original where the
\* hash_len bytes val start, less those whose predecessor starts the same
\* bytes (the empty set when val is no key of pre_hash)
Window(b, o, h) == PySlice(b, o, o + h)

PreHash(old, val, h) ==
    {o \in 0..(Len(old) - h - 1) :
        /\ Window(old, o, h) = val
        /\ (o = 0 \/ Window(old, o - 1, h) # val)}

\* _naive_diff, the two while loops that count matching bytes: from k, the
\* first count at which an array ends or the bytes differ
MatchStops(old, new, old_offset, new_offset, n) ==
    IF new_offset + n < Len(new) /\ old_offset + n < Len(old)
    THEN new[new_offset + n + 1] # old[old_offset + n + 1]
    ELSE TRUE

MatchLen(old, new, old_offset, new_offset, k) ==
    CHOOSE n \in k..(k + Len(new)) :
        /\ MatchStops(old, new, old_offset, new_offset, n)
        /\ \A m \in k..(n - 1) : ~MatchStops(old, new, old_offset, new_offset, m)

\* _naive_diff, old_match
OldMatch(old, new, old_offset, new_offset, offs) ==
    IF old_offset \in offs THEN MatchLen(old, new, old_offset, new_offset, 0)
    ELSE -100

\* _naive_diff, "for orig_offset in pre_hash[val]": the offsets in
\* ascending order, o the first one not looked at yet or beyond them all;
\* the result is <<max_match, max_offset>>
NextOffset(offs, o) ==
    IF \A x \in offs : x < o THEN o
    ELSE CHOOSE x \in offs : x >= o /\ \A y \in offs : y >= o => x <= y

RECURSIVE BestMatch(_, _, _, _, _, _, _, _)
BestMatchStep(old, new, new_offset, offs, o, old_match, max_match, max_offset, this_match) ==
    IF this_match > max_match /\ this_match > old_match + 8
    THEN BestMatch(old, new, new_offset, offs, NextOffset(offs, o + 1),
                   old_match, this_match, o)
    ELSE BestMatch(old, new, new_offset, offs, NextOffset(offs, o + 1),
                   old_match, max_match, max_offset)

BestMatch(old, new, new_offset, offs, o, old_match, max_match, max_offset) ==
    IF o \notin offs THEN <<max_match, max_offset>>
    ELSE BestMatchStep(old, new, new_offset, offs, o, old_match, max_match,
                       max_offset, MatchLen(old, new, o, new_offset, 0))

\* _naive_diff, the pending write put before a copy or at the end
FlushWrite(new, write_start, write_pending, instr) ==
    IF write_pending # 0
    THEN Append(instr, WriteInstr(PySlice(new, write_start,
                                          write_start + write_pending)))
    ELSE instr

\* _naive_diff, the main loop
RECURSIVE NaiveLoop(_, _, _, _, _, _, _, _)
NaiveEmit(old, new, h, old_offset, new_offset, write_start, instr, best) ==
    NaiveLoop(old, new, h, best[2] + best[1], new_offset + best[1],
              write_start, 0,
              (IF best[2] # old_offset
               THEN Append(instr, SetAddrInstr(old_offset, best[2]))
               ELSE instr) \o <<CopyInstr(best[1], best[2])>>)

NaiveMatch(old, new, h, old_offset, new_offset, write_start, instr, offs, old_match) ==
    NaiveEmit(old, new, h, old_offset, new_offset, write_start, instr,
              BestMatch(old, new, new_offset, offs, NextOffset(offs, 0),
                        old_match, old_match, old_offset))

\* _naive_diff, the else branch of the main loop: one byte more is pending
\* and the offsets move on by one.  The iterations that follow each other
\* through this branch are taken together; WriteRun is their number, up to
\* the next new_offset whose bytes are a key of pre_hash or to the end
WriteRun(old, new, h, new_offset) ==
    CHOOSE n \in 1..(Len(new) - new_offset) :
        /\ \A m \in 1..(n - 1) :
              PreHash(old, Window(new, new_offset + m, h), h) = {}
        /\ \/ new_offset + n = Len(new)
           \/ PreHash(old, Window(new, new_offset + n, h), h) # {}

NaivePend(old, new, h, old_offset, new_offset, write_start, write_pending, instr, run) ==
    NaiveLoop(old, new, h, old_offset + run, new_offset + run,
              IF write_pending = 0 THEN new_offset ELSE write_start,
              write_pending + run, instr)

NaiveFound(old, new, h, old_offset, new_offset, write_start, write_pending, instr, offs) ==
    IF offs # {}
    THEN NaiveMatch(old, new, h, old_offset, new_offset, write_start,
                    FlushWrite(new, write_start, write_pending, instr), offs,
                    OldMatch(old, new, old_offset, new_offset, offs))
    ELSE NaivePend(old, new, h, old_offset, new_offset, write_start,
                   write_pending, instr, WriteRun(old, new, h, new_offset))

NaiveLoop(old, new, h, old_offset, new_offset, write_start, write_pending, instr) ==
    IF new_offset >= Len(new)
    THEN FlushWrite(new, write_start, write_pending, instr)
    ELSE NaiveFound(old, new, h, old_offset, new_offset, write_start,
                    write_pending, instr,
                    PreHash(old, Window(new, new_offset, h), h))

\* _naive_diff
naive_diff(old, new, hash_len) == NaiveLoop(old, new, hash_len, 0, 0, 0, 0, <<>>)

\* _cleanup_jumps, the first loop.  _naive_diff puts a COPY after every
\* ADDR, so "copy = instructions[0]" and its assertion always succeed.
RECURSIVE CleanupMerge(_, _, _)
CleanupMerge(old, ins, merged) ==
    IF ins = <<>> THEN merged
    ELSE IF ins[1].op = "ADDR" /\ Len(ins) >= 3 /\ ins[3].op = "ADDR"
    THEN IF ins[1].shift = -ins[3].shift
         THEN CleanupMerge(old, SubSeq(ins, 4, Len(ins)),
                  Append(merged, WriteInstr(PySlice(old, ins[1].new,
                                                ins[1].new + ins[2].length))))
         ELSE CleanupMerge(old, Tail(ins), Append(merged, ins[1]))
    ELSE IF /\ ins[1].op = "ADDR"
            /\ Len(ins) >= 4
            /\ ins[3].op = "WRITE"
            /\ ins[4].op = "ADDR"
            /\ ins[1].shift = -ins[4].shift
    THEN CleanupMerge(old, SubSeq(ins, 5, Len(ins)),
             Append(merged, WriteInstr(PySlice(old, ins[1].new,
                                           ins[1].new + ins[2].length)
                                       \o ins[3].data)))
    ELSE CleanupMerge(old, Tail(ins), Append(merged, ins[1]))

\* _cleanup_jumps, the pass that joins sequential WRITEs
RECURSIVE CleanupJoin(_, _)
CleanupJoin(merged, cleaned) ==
    IF merged = <<>> THEN cleaned
    ELSE IF merged[1].op = "WRITE" /\ cleaned[Len(cleaned)].op = "WRITE"
    THEN CleanupJoin(Tail(merged),
             [cleaned EXCEPT ![Len(cleaned)] =
                  WriteInstr(cleaned[Len(cleaned)].data \o merged[1].data)])
    ELSE CleanupJoin(Tail(merged), Append(cleaned, merged[1]))

\* _cleanup_jumps, from "cleaned = [merged[0]]"
CleanupCleaned(merged) ==
    IF merged = <<>> THEN Raise("IndexError")
    ELSE Ok(CleanupJoin(Tail(merged), <<merged[1]>>))

\* _cleanup_jumps
cleanup_jumps(old, instructions) ==
    CleanupCleaned(CleanupMerge(old, instructions, <<>>))

\* _common_writes, write_chunks: the data of the WRITEs of 8 bytes or more,
\* in the order of their first occurrence
RECURSIVE WriteChunks(_, _)
WriteChunks(instructions, chunks) ==
    IF instructions = <<>> THEN chunks
    ELSE IF /\ instructions[1].op = "WRITE"
            /\ Len(instructions[1].data) >= 8
            /\ \A i \in 1..Len(chunks) : chunks[i] # instructions[1].data
    THEN WriteChunks(Tail(instructions), Append(chunks, instructions[1].data))
    ELSE WriteChunks(Tail(instructions), chunks)

\* _common_writes, write_chunks[val]
ChunkCount(instructions, val) ==
    Cardinality({i \in 1..Len(instructions) :
                    instructions[i].op = "WRITE" /\ instructions[i].data = val})

\* _common_writes, common[val]
Savings(instructions, val) == (ChunkCount(instructions, val) - 1) * Len(val)

\* _common_writes, common: the chunks that occur more than twice
RECURSIVE CommonChunks(_, _)
CommonChunks(instructions, chunks) ==
    IF chunks = <<>> THEN <<>>
    ELSE (IF ChunkCount(instructions, chunks[1]) > 2 THEN <<chunks[1]>>
          ELSE <<>>) \o CommonChunks(instructions, Tail(chunks))

\* _common_writes, by_savings: sorted(.., reverse=True) keeps the order of
\* entries of equal savings
RECURSIVE BySavings(_, _)
BySavingsFirst(instructions, common) ==
    CHOOSE i \in 1..Len(common) :
        /\ \A j \in 1..Len(common) :
              Savings(instructions, common[j]) <= Savings(instructions, common[i])
        /\ \A j \in 1..(i - 1) :
              Savings(instructions, common[j]) < Savings(instructions, common[i])

BySavingsTake(instructions, common, i) ==
    <<common[i]>> \o BySavings(instructions,
                              SubSeq(common, 1, i - 1)
                              \o SubSeq(common, i + 1, Len(common)))

BySavings(instructions, common) ==
    IF common = <<>> THEN <<>>
    ELSE BySavingsTake(instructions, common, BySavingsFirst(instructions, common))

\* _common_writes, cached
RECURSIVE CachedChunks(_, _, _)
CachedChunks(by_savings, cached, allocated) ==
    IF by_savings = <<>> \/ Len(cached) > 16 THEN cached
    ELSE IF 1 + Len(by_savings[1]) + allocated > cache_size
    THEN CachedChunks(Tail(by_savings), cached, allocated)
    ELSE CachedChunks(Tail(by_savings), Append(cached, by_savings[1]),
                      allocated + 1 + Len(by_savings[1]))

\* cached.index(data), counted from 0
CacheIndex(cached, data) ==
    (CHOOSE i \in 1..Len(cached) :
        cached[i] = data /\ \A j \in 1..(i - 1) : cached[j] # data) - 1

\* _common_writes, out_instr
ReplaceCached(cached, instructions) ==
    [k \in 1..Len(instructions) |->
        IF /\ instructions[k].op = "WRITE"
           /\ \E i \in 1..Len(cached) : cached[i] = instructions[k].data
        THEN WriteCachedInstr(CacheIndex(cached, instructions[k].data),
                              Len(instructions[k].data))
        ELSE instructions[k]]

\* cached without the limits of the cache region
CommonCachedAll(instructions) ==
    BySavings(instructions, CommonChunks(instructions, WriteChunks(instructions, <<>>)))

CommonCached(instructions) ==
    CachedChunks(BySavings(instructions,
                     CommonChunks(instructions, WriteChunks(instructions, <<>>))),
                 <<>>, 0)

\* _common_writes: (cached, out_instr)
common_writes(instructions) ==
    [cache |-> CommonCached(instructions),
     instr |-> ReplaceCached(CommonCached(instructions), instructions)]

\* _merge_operations, finalise
Finalise(merged, to_merge) ==
    IF to_merge = <<>> THEN merged
    ELSE IF Len(to_merge) = 1 THEN Append(merged, to_merge[1])
    ELSE Append(merged, PatchInstr(to_merge))

\* _merge_operations, pended
Pended(instr, to_merge) ==
    \/ instr.op = "COPY" /\ instr.length < 128
    \/ instr.op = "WRITE" /\ Len(to_merge) > 0 /\ Len(instr.data) < 256

\* _merge_operations, the loop
RECURSIVE MergeLoop(_, _, _)
MergeLoop(instructions, merged, to_merge) ==
    IF instructions = <<>> THEN Finalise(merged, to_merge)
    ELSE IF Pended(instructions[1], to_merge)
    THEN MergeLoop(Tail(instructions), merged, Append(to_merge, instructions[1]))
    ELSE MergeLoop(Tail(instructions),
                   Append(Finalise(merged, to_merge), instructions[1]), <<>>)

\* _merge_operations
merge_operations(instructions) == MergeLoop(instructions, <<>>, <<>>)

\* _merge_crack, split: the run lengths of a write's data against the
\* original at old_offset, write runs at the odd places and copy runs at the
\* even ones (idx counted from 1)
RECURSIVE CrackSplit(_, _, _, _, _)
CrackSplit(old, old_offset, data, idx, split) ==
    IF idx > Len(data) THEN split
    ELSE IF (old[old_offset + idx] # data[idx]) <=> (Len(split) % 2 = 1)
    THEN CrackSplit(old, old_offset, data, idx + 1,
                    [split EXCEPT ![Len(split)] = @ + 1])
    ELSE CrackSplit(old, old_offset, data, idx + 1, Append(split, 1))

\* _merge_crack, "Construct the [WRITE, COPY] pairs" and the final WRITE
RECURSIVE CrackPairs(_, _, _, _, _)
CrackPairs(data, old_offset, split, offset, ops) ==
    IF Len(split) > 1
    THEN IF split[2] = 1
         THEN CrackPairs(data, old_offset,
                         <<split[3] + split[1] + split[2]>>
                         \o SubSeq(split, 4, Len(split)),
                         offset, ops)
         ELSE IF split[1] = 0 THEN Raise("AssertionError")
         ELSE CrackPairs(data, old_offset, SubSeq(split, 3, Len(split)),
                         offset + split[1] + split[2],
                         ops \o <<WriteInstr(PySlice(data, offset, offset + split[1])),
                                  CopyInstr(split[2], old_offset + offset + split[1])>>)
    ELSE IF PySlice(data, offset, offset + split[1]) = <<>>
    THEN Raise("AssertionError")
    ELSE Ok(Append(ops, WriteInstr(PySlice(data, offset, offset + split[1]))))

\* _merge_crack, the loop over the operations of one PATCH
RECURSIVE CrackOps(_, _, _)
CrackNext(old, operations, updated_ops, r) ==
    IF r.exc # "none" THEN r
    ELSE CrackOps(old, operations, updated_ops \o r.val)

CrackEmit(old, operations, updated_ops, old_offset, data, split) ==
    CrackNext(old, operations, updated_ops,
              CrackPairs(data, old_offset, split, 0, <<>>))

\* _merge_crack, "Ended on a copy"
CrackWrite(old, operations, updated_ops, old_offset, data, split) ==
    IF Len(split) % 2 = 1
    THEN CrackEmit(old, operations, updated_ops, old_offset, data, split)
    ELSE IF operations = <<>>
    THEN CrackEmit(old, operations, updated_ops, old_offset, data,
                   [SubSeq(split, 1, Len(split) - 1)
                        EXCEPT ![Len(split) - 1] = @ + split[Len(split)]])
    ELSE IF operations[1].op # "COPY" THEN Raise("AssertionError")
    ELSE CrackEmit(old,
                   [operations EXCEPT ![1] =
                        CopyInstr(@.length + split[Len(split)],
                                  @.original_offset - split[Len(split)])],
                   updated_ops, old_offset, data,
                   SubSeq(split, 1, Len(split) - 1))

CrackOps(old, operations, updated_ops) ==
    IF operations = <<>> THEN Ok(updated_ops)
    ELSE IF Len(operations) = 1 THEN Ok(Append(updated_ops, operations[1]))
    ELSE IF operations[1].op # "COPY" \/ operations[2].op # "WRITE"
    THEN Raise("AssertionError")
    ELSE IF operations[1].original_offset = -1 THEN Raise("AssertionError")
    ELSE IF Len(operations[2].data) < 4
    THEN CrackOps(old, SubSeq(operations, 3, Len(operations)),
                  updated_ops \o <<operations[1], operations[2]>>)
    ELSE IF operations[1].original_offset + operations[1].length
            + Len(operations[2].data) > Len(old)
    THEN Raise("IndexError")
    ELSE CrackWrite(old, SubSeq(operations, 3, Len(operations)),
                    Append(updated_ops, operations[1]),
                    operations[1].original_offset + operations[1].length,
                    operations[2].data,
                    CrackSplit(old,
                               operations[1].original_offset + operations[1].length,
                               operations[2].data, 1, <<0>>))

\* _merge_crack, the loop over the instructions
RECURSIVE CrackLoop(_, _, _)
CrackPatch(old, instructions, out, r) ==
    IF r.exc # "none" THEN r
    ELSE CrackLoop(old, Tail(instructions), Append(out, PatchInstr(r.val)))

CrackLoop(old, instructions, out) ==
    IF instructions = <<>> THEN Ok(out)
    ELSE IF instructions[1].op # "PATCH"
    THEN CrackLoop(old, Tail(instructions), Append(out, instructions[1]))
    ELSE CrackPatch(old, instructions, out,
                    CrackOps(old, instructions[1].operations, <<>>))

\* _merge_crack
merge_crack(old, instructions) == CrackLoop(old, instructions, <<>>)

\* sum([len(i) for i in instr])
RECURSIVE PatchLen(_)
PatchLen(instr) ==
    IF instr = <<>> THEN 0 ELSE InstrLen(instr[1]) + PatchLen(Tail(instr))

\* _gen_patch_instr, one pass of the loop: what it leaves in instr,
\* write_cache and patch_len, or the exception a step raised
Candidate(write_cache, instr) ==
    [exc |-> "none", cache |-> write_cache, instr |-> instr,
     patch_len |-> PatchLen(instr)]

NoCandidate(e) == [exc |-> e, cache |-> <<>>, instr |-> <<>>, patch_len |-> -1]

AfterCrack(write_cache, r) ==
    IF r.exc # "none" THEN NoCandidate(r.exc) ELSE Candidate(write_cache, r.val)

AfterCommon(old, cw) ==
    AfterCrack(cw.cache, merge_crack(old, merge_operations(cw.instr)))

AfterCleanup(old, r) ==
    IF r.exc # "none" THEN NoCandidate(r.exc)
    ELSE AfterCommon(old, common_writes(r.val))

HashLenPass(bin_orig, bin_new, i) ==
    AfterCleanup(bin_orig, cleanup_jumps(bin_orig, naive_diff(bin_orig, bin_new, i)))

\* "for i in range(4, 8)"
HashLens == 4..7

\* _gen_patch_instr, the loop: best holds best_patch, best_write_cache and
\* best_patch_len; patch_len -1 stands for the initial 2**32, which is more
\* than every patch length
RECURSIVE BestPass(_, _, _, _)
BestConsider(bin_orig, bin_new, i, best, c) ==
    IF c.exc # "none" THEN c
    ELSE BestPass(bin_orig, bin_new, i + 1,
                  IF best.patch_len = -1 \/ c.patch_len < best.patch_len
                  THEN c ELSE best)

BestPass(bin_orig, bin_new, i, best) ==
    IF i \notin HashLens THEN best
    ELSE BestConsider(bin_orig, bin_new, i, best, HashLenPass(bin_orig, bin_new, i))

\* _gen_patch_instr
gen_patch_instr(bin_orig, bin_new) ==
    BestPass(bin_orig, bin_new, 4, NoCandidate("none"))

\* _gen_patch_data
RECURSIVE GenData(_, _)
GenDataNext(instructions, output_bytes, r) ==
    IF r.exc # "none" THEN r
    ELSE GenData(Tail(instructions), output_bytes \o r.val)

GenData(instructions, output_bytes) ==
    IF instructions = <<>> THEN Ok(output_bytes)
    ELSE GenDataNext(instructions, output_bytes, InstrBytes(instructions[1]))

gen_patch_data(instructions) == GenData(instructions, <<>>)

\* _gen_patch_header, cache_bin before it is padded (an entry is at most
\* cache_size - 1 bytes, so its length fits the byte)
RECURSIVE CacheBin(_)
CacheBin(write_cache) ==
    IF write_cache = <<>> THEN <<>>
    ELSE <<Len(write_cache[1])>> \o write_cache[1] \o CacheBin(Tail(write_cache))

\* _gen_patch_header, the header with header_crc still 0
HeaderNoCrc(magic, bin_orig, bin_new, cache_bin, patch_data) ==
    magic \o U32LE(Len(bin_orig)) \o crc32(bin_orig)
          \o U32LE(Len(bin_new)) \o crc32(bin_new)
          \o U32LE(Len(patch_data)) \o crc32(patch_data)
          \o cache_bin \o <<0, 0, 0, 0>>

\* _gen_patch_header, header_crc put in place
WithHeaderCrc(hdr_no_crc) ==
    PySlice(hdr_no_crc, 0, HeaderSize - 4)
    \o crc32(PySlice(hdr_no_crc, 0, HeaderCrcLen))

\* _gen_patch_header
gen_patch_header(bin_orig, bin_new, write_cache, patch_data) ==
    IF Len(CacheBin(write_cache) \o Zeros(cache_size - Len(CacheBin(write_cache))))
           # cache_size
    THEN Raise("AssertionError")
    ELSE Ok(WithHeaderCrc(HeaderNoCrc(magic_value, bin_orig, bin_new,
                CacheBin(write_cache)
                \o Zeros(cache_size - Len(CacheBin(write_cache))),
                patch_data)))

\* What generate returns or raises
Generated(bin_patch, c) ==
    [exc |-> "none", why |-> "", patch |-> bin_patch, cache |-> c.cache,
     instructions |-> c.instr]

GenerateError(e, why) ==
    [exc |-> e, why |-> why, patch |-> <<>>, cache |-> <<>>,
     instructions |-> <<>>]

\* generate, "Validate that file can be reconstructed"
GenerateChecked(bin_new, bin_patch, c, patched) ==
    IF patched.exc # "none" THEN GenerateError(patched.exc, patched.why)
    ELSE IF bin_new # patched.val THEN GenerateError("AssertionError", "")
    ELSE Generated(bin_patch, c)

\* generate, from the computation of ratio
GenerateFile(bin_original, bin_new, c, bin_patch) ==
    IF Len(bin_new) = 0 THEN GenerateError("ZeroDivisionError", "")
    ELSE GenerateChecked(bin_new, bin_patch, c, patch(bin_original, bin_patch))

GenerateHeader(bin_original, bin_new, c, patch_data, patch_header) ==
    IF patch_header.exc # "none" THEN GenerateError(patch_header.exc, "")
    ELSE GenerateFile(bin_original, bin_new, c, patch_header.val \o patch_data)

GenerateData(bin_original, bin_new, c, patch_data) ==
    IF patch_data.exc # "none" THEN GenerateError(patch_data.exc, "")
    ELSE GenerateHeader(bin_original, bin_new, c, patch_data.val,
             gen_patch_header(bin_original, bin_new, c.cache, patch_data.val))

GenerateInstr(bin_original, bin_new, c) ==
    IF c.exc # "none" THEN GenerateError(c.exc, "")
    ELSE GenerateData(bin_original, bin_new, c, gen_patch_data(c.instr))

\* diff.generate
generate(bin_original, bin_new) ==
    GenerateInstr(bin_original, bin_new, gen_patch_instr(bin_original, bin_new))

\* ---- the inputs explored
DiffOriginals == SeqsOf(DiffBytes, 0, MaxOrigLen)

DiffNews == SeqsOf(DiffBytes, 0, MaxNewLen)

\* A run of bytes that occurs once, six bytes short of the first copy length
\* a PATCH macro cannot hold
LongRun == [i \in 1..(128 - 6) |-> i + 9]

\* Longer pairs: a write that runs past the end of the original, address
\* jumps, a PATCH macro, a PATCH macro after a jump, a cached write, and one
\* changed byte whose seven bytes occur earlier in the original, before a
\* long unchanged run
DiffSamples ==
    {<<<<0, 0, 0, 0, 0>>, <<0, 0, 0, 0, 1, 0, 0, 0>>>>,
     <<<<1, 0, 0, 0, 0, 1, 1, 1, 1, 1, 0, 0, 1, 0, 1, 0>>,
       <<1, 1, 1, 1, 1, 0, 1, 0, 0, 0, 0, 1>>>>,
     <<<<1, 0, 0, 0, 0, 1, 1, 1, 1, 1, 0, 0, 1, 0, 1, 0>>,
       <<1, 0, 0, 0, 0, 0, 1, 1, 1, 1, 0, 0, 1, 0>>>>,
     <<<<1, 0, 1, 1, 0, 0, 0, 0, 1, 0>>,
       <<0, 1, 1, 0, 1, 1, 0, 1, 0, 0, 0, 1>>>>,
     <<<<1, 2, 3, 4, 5, 6, 7, 8>>,
       <<9, 9, 9, 9, 9, 9, 9, 9, 1, 2, 3, 4, 5, 6,
         9, 9, 9, 9, 9, 9, 9, 9, 1, 2, 3, 4, 5, 6,
         9, 9, 9, 9, 9, 9, 9, 9>>>>,
     <<<<1, 2, 3, 4, 5, 6, 7, 0, 2, 3, 4, 5, 6, 7>> \o LongRun,
       <<1, 2, 3, 4, 5, 6, 7, 1, 2, 3, 4, 5, 6, 7>> \o LongRun>>}

\* The pairs whose patch is also damaged byte by byte
Tampered(original, new) ==
    \/ Len(original) <= MaxTamperLen /\ Len(new) <= MaxTamperLen
    \/ <<original, new>> \in DiffSamples

\* The values a damaged byte is xored with
TamperMasks == {1, 255}

\* Magic values other than magic_value: 0 and 0xBA854093
ForgedMagics == {<<0, 0, 0, 0>>, <<147, 64, 133, 186>>}

\* A patch file with the byte at pos (from 0) xored with mask
TamperByte(bin_patch, pos, mask) ==
    [bin_patch EXCEPT ![pos + 1] = Xor8Table[@][mask]]

\* A patch file with another magic and the header_crc that fits it: what
\* _gen_patch_header builds when the magic it is given is not magic_value
ForgeMagic(bin_patch, magic) ==
    WithHeaderCrc(magic \o PySlice(bin_patch, 4, HeaderSize))
    \o PatchBody(bin_patch)

NoEdit == [kind |-> "none", pos |-> 0, mask |-> 0, magic |-> <<>>]

NoGen == GenerateError("not run", "")

NoOut == [cmd |-> "none", exc |-> "none", why |-> "", val |-> <<>>]

PatchOut(r) == [cmd |-> "patch", exc |-> r.exc, why |-> r.why, val |-> r.val]

DumpOut(r) == [cmd |-> "dump", exc |-> r.exc, why |-> r.why, val |-> <<>>]

DfInit ==
    /\ \E pair \in (DiffOriginals \X DiffNews) \cup DiffSamples :
          /\ df_original = pair[1]
          /\ df_new = pair[2]
    /\ df_pc = "idle"
    /\ df_gen = NoGen
    /\ df_file = <<>>
    /\ df_edit = NoEdit
    /\ df_out = NoOut

DfOff ==
    /\ df_original = <<>>
    /\ df_new = <<>>
    /\ df_pc = "off"
    /\ df_gen = NoGen
    /\ df_file = <<>>
    /\ df_edit = NoEdit
    /\ df_out = NoOut

\* "generate original new patch": generate runs and the patch file is
\* written when it returns
DfGenerate ==
    /\ df_pc = "idle"
    /\ \E g \in {generate(df_original, df_new)} :
          /\ df_gen' = g
          /\ df_file' = g.patch
          /\ df_pc' = IF g.exc = "none" THEN "generated" ELSE "failed"
    /\ UNCHANGED <<df_original, df_new, df_edit, df_out>>
    /\ UNCHANGED notDfVars

\* One byte of the patch file changes on its way to the next command
DfTamper ==
    /\ df_pc = "generated"
    /\ Tampered(df_original, df_new)
    /\ \E pos \in 0..(Len(df_file) - 1), mask \in TamperMasks :
          /\ df_file' = TamperByte(df_file, pos, mask)
          /\ df_edit' = [NoEdit EXCEPT !.kind = "byte", !.pos = pos, !.mask = mask]
    /\ df_pc' = "edited"
    /\ UNCHANGED <<df_original, df_new, df_gen, df_out>>
    /\ UNCHANGED notDfVars

\* The patch file is rebuilt with another magic and consistent CRCs
DfForgeMagic ==
    /\ df_pc = "generated"
    /\ \E magic \in ForgedMagics :
          /\ df_file' = ForgeMagic(df_file, magic)
          /\ df_edit' = [NoEdit EXCEPT !.kind = "magic", !.magic = magic]
    /\ df_pc' = "edited"
    /\ UNCHANGED <<df_original, df_new, df_gen, df_out>>
    /\ UNCHANGED notDfVars

\* "patch original patch output"
DfPatch ==
    /\ df_pc \in {"generated", "edited"}
    /\ \E r \in {patch(df_original, df_file)} : df_out' = PatchOut(r)
    /\ df_pc' = "done"
    /\ UNCHANGED <<df_original, df_new, df_gen, df_file, df_edit>>
    /\ UNCHANGED notDfVars

\* "dump patch"
DfDump ==
    /\ df_pc \in {"generated", "edited"}
    /\ \E r \in {dump(df_file)} : df_out' = DumpOut(r)
    /\ df_pc' = "done"
    /\ UNCHANGED <<df_original, df_new, df_gen, df_file, df_edit>>
    /\ UNCHANGED notDfVars

DfNext == DfGenerate \/ DfTamper \/ DfForgeMagic \/ DfPatch \/ DfDump

\* ------------------------------------------------------------------
\* Device registry API (database.py)
\*
\* DeviceState carries bt_addr and device_public_key as well; no operation
\* modelled here reads them, and they are left out of the record.
\* ------------------------------------------------------------------
\* binascii.crc32(cloud_pub_key + device_pub_key) & 0x00FFFFFF
SecurityKeyId(cloud_pub_key, device_pub_key) ==
    FromU24LE(SubSeq(crc32(cloud_pub_key \o device_pub_key), 1, 3))

\* DeviceDatabase.observe_security_state, the stores: device_key_id is the
\* id computed from the two public keys; response is what get_shared_secret
\* returned (None, or the shared key)
StoreSecurityState(db, infuse_id, device_key_id, network_id, response) ==
    LET d0 == IF infuse_id \in DOMAIN db.devices THEN db.devices
              ELSE [x \in DOMAIN db.devices \cup {infuse_id} |->
                        IF x = infuse_id THEN NewDeviceState ELSE db.devices[x]]
        d1 == [d0 EXCEPT ![infuse_id].device_key_id = Some(device_key_id),
                         ![infuse_id].network_id = Some(network_id)]
        d2 == IF response.some THEN [d1 EXCEPT ![infuse_id].shared_key = response]
              ELSE d1
    IN [db |-> [db EXCEPT !.devices = d2], exc |-> "none", key |-> None]

\* DeviceDatabase.observe_security_state
observe_security_state(db, infuse_id, cloud_pub_key, device_pub_key, network_id, response) ==
    StoreSecurityState(db, infuse_id, SecurityKeyId(cloud_pub_key, device_pub_key),
                       network_id, response)

\* Inputs of the registry calls
RgInterfaces == {"SERIAL", "BT_ADV", "BT_PERIPHERAL", "BT_CENTRAL"}

\* Network ids seen in packets and responses: 1 is in the keyring, 7 is not
RgNetworks == {1, 7}

\* Device key ids seen in packets
RgKeyIds == {5}

\* gps_time values: the first and the last second of day 1, and the first
\* second of day 2
RgGpsTimes == {U32LE(86400), U32LE(172799), U32LE(172800)}

\* Public keys of a security_state response (32 bytes each)
RgCloudKey == [i \in 1..32 |-> 1]

RgDeviceKeys == {[i \in 1..32 |-> 2]}

\* What get_shared_secret returns: None, or the shared key
RgSecrets == {None, Some(201)}

\* The device key id recorded for infuse_id, if there is one
KeyIdOf(db, infuse_id) ==
    IF infuse_id \in DOMAIN db.devices THEN db.devices[infuse_id].device_key_id ELSE None

NoCall ==
    [op |-> "none", infuse_id |-> IdA, seen |-> None, before |-> None, exc |-> "none",
     interface |-> "", auth |-> "", gps_time |-> <<>>, key |-> None, hit |-> FALSE]

\* DeviceDatabase(local_root): a new registry in a new process
RgInit ==
    /\ rg_db = [gateway |-> None, devices |-> <<>>, network_keys |-> {}, derived_keys |-> <<>>]
    /\ rg_h = NoCall

RgOff ==
    /\ rg_db = [gateway |-> None, devices |-> <<>>, network_keys |-> {}, derived_keys |-> <<>>]
    /\ rg_h = [NoCall EXCEPT !.op = "off"]

\* The history after a call that observed the device key id seen (if any)
Observed(op, infuse_id, seen, r) ==
    [NoCall EXCEPT !.op = op, !.infuse_id = infuse_id, !.seen = seen,
                   !.before = KeyIdOf(rg_db, infuse_id), !.exc = r.exc]

\* database.observe_device(infuse_id, network_id=.., device_key_id=..)
RgObserveDevice ==
    /\ \E network_id \in {None} \cup {Some(n) : n \in RgNetworks},
          device_key_id \in {None} \cup {Some(k) : k \in RgKeyIds} :
          \E r \in {observe_device(rg_db, IdA, network_id, device_key_id)} :
              /\ rg_db' = r.db
              /\ rg_h' = Observed("observe_device", IdA, device_key_id, r)
    /\ UNCHANGED notRgVars

\* database.observe_security_state(infuse_id, cloud_pub_key, device_pub_key,
\* network_id)
RgObserveSecurityState ==
    /\ \E device_pub_key \in RgDeviceKeys, network_id \in RgNetworks, response \in RgSecrets :
          \E id \in {SecurityKeyId(RgCloudKey, device_pub_key)} :
              \E r \in {StoreSecurityState(rg_db, IdA, id, network_id, response)} :
                  /\ rg_db' = r.db
                  /\ rg_h' = Observed("observe_security_state", IdA, Some(id), r)
    /\ UNCHANGED notRgVars

\* A frame of an interface is decoded: the key lookup of its frame class
RgKey ==
    /\ \E interface \in RgInterfaces, auth \in {"NETWORK", "DEVICE"}, gps_time \in RgGpsTimes :
          \E r \in {InterfaceKey(rg_db, interface, auth, IdA, gps_time)} :
              /\ rg_db' = r.db
              /\ rg_h' = [NoCall EXCEPT
                            !.op = "key", !.infuse_id = IdA,
                            !.before = KeyIdOf(rg_db, IdA), !.exc = r.exc,
                            !.interface = interface, !.auth = auth,
                            !.gps_time = gps_time, !.key = r.key,
                            !.hit = /\ auth = "NETWORK"
                                    /\ r.exc = "none"
                                    /\ r.db.derived_keys = rg_db.derived_keys]
    /\ UNCHANGED notRgVars

RgNext == RgObserveDevice \/ RgObserveSecurityState \/ RgKey

\* ------------------------------------------------------------------
\* Instruction objects of the patch generator, called on their own (diff.py)
\* ------------------------------------------------------------------
\* n bytes of value b
Chunk(b, n) == [i \in 1..n |-> b]

\* The same WRITE count times
Repeated(data, count) == [i \in 1..count |-> WriteInstr(data)]

\* Lengths and numbers of occurrences of the write payloads of an
\* instruction list: below and at the shortest payload that is cached, two
\* payloads that fill the cache region exactly (2 * (1 + 63) = 128), one
\* that leaves room for a payload of 7 bytes but not of 8
ChunkLens == {7, 8, 63, 119}

ChunkCounts == {2, 3, 4}

\* Most distinct payloads of such an instruction list
MaxChunks == 3

ChunkRecipes ==
    UNION {[1..n -> ChunkLens \X ChunkCounts] : n \in 1..MaxChunks}

\* The instruction list of a recipe: a COPY, then payload k (bytes of value
\* k) as often as the recipe says
RecipeWrites(recipe, k) ==
    IF k > Len(recipe) THEN <<>> ELSE Repeated(Chunk(k, recipe[k][1]), recipe[k][2])

RecipeInstrs(recipe) ==
    <<CopyInstr(4, 0)>> \o RecipeWrites(recipe, 1) \o RecipeWrites(recipe, 2)
        \o RecipeWrites(recipe, 3) \o RecipeWrites(recipe, 4)

\* Numbers of distinct 8-byte payloads, each written three times in turn:
\* 14 entries of 1 + 8 bytes are the most the cache region holds
ManyChunks == 13..17

ManyInstrs(n) == [i \in 1..(3 * n) |-> WriteInstr(Chunk(((i - 1) % n) + 1, 8))]

CommonWritesArgs ==
    {[fn |-> "common_writes", instructions |-> RecipeInstrs(r)] : r \in ChunkRecipes}
    \cup {[fn |-> "common_writes", instructions |-> ManyInstrs(n)] : n \in ManyChunks}

\* Lengths of a COPY or a WRITE: around every limit of a length field
InstrLens == {1, 2, 15, 16, 17, 255, 256, 4095, 4096, 4097, 65535, 65536, 1048575, 1048576}

\* Longest COPY: the largest length below Huge
LongCopy == Huge - 1

\* Bytes before the instruction in the buffer it is decoded from
MaxInstrOffset == 2

\* The data of a WRITE of n bytes
WriteData(n) == [i \in 1..n |-> (i * 7) % 256]

CodecArgs ==
    [fn : {"codec"}, op : {"COPY", "WRITE"}, length : InstrLens,
     offset : 0..MaxInstrOffset, original_offset : {0, 5}]
    \cup [fn : {"codec"}, op : {"COPY"}, length : {LongCopy},
          offset : 0..MaxInstrOffset, original_offset : {0}]

\* bytes(instr) of an instruction, then Instr.from_bytes at offset of a
\* buffer that holds those bytes between other bytes: what was encoded and
\* what came back
Codec(instr, encoded, offset, original_offset) ==
    LET decoded == InstrFromBytes(Zeros(offset) \o encoded \o <<255, 255>>,
                                  offset, original_offset, <<>>)
    IN [opcode |-> OpBits(encoded[1]),
        encoded_len |-> Len(encoded),
        exc |-> decoded.exc,
        same |-> decoded.exc = "none" /\ decoded.instr.op = instr.op
                  /\ IF instr.op = "COPY" THEN decoded.instr.length = instr.length
                     ELSE decoded.instr.data = instr.data,
        consumed |-> decoded.length,
        original_offset |-> decoded.original_offset]

InInit ==
    /\ in_arg \in CommonWritesArgs \cup CodecArgs
    /\ in_out = None

InOff ==
    /\ in_arg = [fn |-> "off"]
    /\ in_out = None

\* diff._common_writes(instructions)
InCommonWrites ==
    /\ in_arg.fn = "common_writes"
    /\ ~in_out.some
    /\ in_out' = Some(common_writes(in_arg.instructions))
    /\ UNCHANGED <<in_arg, notInVars>>

\* bytes(CopyInstr(length)) or bytes(WriteInstr(data)), and from_bytes
InCodec ==
    /\ in_arg.fn = "codec"
    /\ ~in_out.some
    /\ \E instr \in {IF in_arg.op = "COPY" THEN CopyInstr(in_arg.length, -1)
                      ELSE WriteInstr(WriteData(in_arg.length))} :
          in_out' = Some(Codec(instr, InstrBytes(instr).val, in_arg.offset,
                               in_arg.original_offset))
    /\ UNCHANGED <<in_arg, notInVars>>

InNext == InCommonWrites \/ InCodec

\* ------------------------------------------------------------------
\* SignaledThread (util/threading.py)
\*
\* One thread object, the thread that owns it (start, stop) and the thread
\* it runs (run_loop).  fn is a function that returns, as the dummy_work of
\* the test does; run_loop has no handler, so an fn that raises would end
\* the thread.
\* ------------------------------------------------------------------
\* Invocations counted, and stop() calls made, at most
MaxCalls == 6

MaxStops == 3

\* A loop that never tests the signal
LoopConditionAlways(sig) == TRUE

\* run_loop: while not self._sig.is_set()
LoopCondition(sig) == ~sig

NoStops == [stops |-> 0, pc_at_stop |-> "", after_stop |-> 0]

\* SignaledThread(fn)
ThInit ==
    /\ th_pc = "new"
    /\ th_sig = FALSE
    /\ th_count = 0
    /\ th_h = NoStops

ThOff ==
    /\ th_pc = "off"
    /\ th_sig = FALSE
    /\ th_count = 0
    /\ th_h = NoStops

\* Thread.start(): run_loop begins at the loop test
ThStart ==
    /\ th_pc = "new"
    /\ th_pc' = "check"
    /\ UNCHANGED <<th_sig, th_count, th_h, notThVars>>

\* stop(): self._sig.set()
ThStop ==
    /\ th_h.stops < MaxStops
    /\ th_sig' = TRUE
    /\ th_h' = [th_h EXCEPT !.stops = @ + 1,
                            !.pc_at_stop = IF th_h.stops = 0 THEN th_pc ELSE @]
    /\ UNCHANGED <<th_pc, th_count, notThVars>>

\* run_loop, the loop test
ThTest ==
    /\ th_pc = "check"
    /\ th_pc' = IF LoopCondition(th_sig) THEN "call" ELSE "done"
    /\ UNCHANGED <<th_sig, th_count, th_h, notThVars>>

\* run_loop, self._fn() is entered
ThCall ==
    /\ th_pc = "call"
    /\ th_pc' = "in_fn"
    /\ th_count' = Min(th_count + 1, MaxCalls)
    /\ th_h' = [th_h EXCEPT !.after_stop = IF th_h.stops > 0 THEN @ + 1 ELSE @]
    /\ UNCHANGED <<th_sig, notThVars>>

\* run_loop, self._fn() returns
ThReturn ==
    /\ th_pc = "in_fn"
    /\ th_pc' = "check"
    /\ UNCHANGED <<th_sig, th_count, th_h, notThVars>>

ThNext == ThStart \/ ThStop \/ ThTest \/ ThCall \/ ThReturn

\* ------------------------------------------------------------------
\* Gateway RX worker (tools/gateway.py)
\*
\* The frames come from the gateway device IdA over the serial port.  The
\* device holds the key of its network, its device key id and the shared
\* secret; the tool learns them from the frames, the keyring and the cloud.
\* gateway.py builds its commands as PacketOutputRouted; its to_serial is
\* the PacketOutput.to_serial of packet.py.
\* ------------------------------------------------------------------
RPC_CMD == 3

KEY_IDS == 127

\* The command id of security_state
SECURITY_STATE == 30000

\* The command ids of bt_connect_infuse and bt_disconnect
BT_CONNECT_INFUSE == 50

BT_DISCONNECT == 51

\* ClientNotification.Type
CONNECTION_FAILED == 1

CONNECTION_CREATED == 2

\* Frames handled in one run
MaxFrames == 4

\* The exceptions that are KeyError or ValueError
KeyOrValueErrors == NoKeyErrors \cup {"DeviceKeyChangedError", "KeyError", "ValueError"}

\* rpc.RequestHeader: request_id (u32), command_id (u16)
RequestHeaderBytes(request_id, command_id) == U32LE(request_id) \o U16LE(command_id)

\* rpc.ResponseHeader: request_id (u32), command_id (u16), return_code (i16)
ResponseHeaderBytes(request_id, command_id, return_code) ==
    U32LE(request_id) \o U16LE(command_id) \o U16LE(return_code % 65536)

\* rpc.ResponseHeader.from_buffer_copy(payload) and what follows the header
ResponseHeaderFrom(payload) ==
    [request_id |-> U32Value(SubSeq(payload, 1, 4)),
     command_id |-> FromU16LE(SubSeq(payload, 5, 6)),
     return_code |-> S16Value(SubSeq(payload, 7, 8)),
     response |-> SubSeq(payload, 9, Len(payload))]

\* BluetoothLeAddr.to_rpc_struct
to_rpc_struct(addr) == <<addr.addr_type>> \o Reverse(addr.addr_val)

\* sizeof(bt_connect_infuse.response): peer, cloud_public_key,
\* device_public_key, network_id
BtConnectResponseSize == 75

\* bt_connect_infuse.response.from_buffer_copy
BtConnectResponseFrom(b) ==
    [peer |-> SubSeq(b, 1, 7), cloud_public_key |-> SubSeq(b, 8, 39),
     device_public_key |-> SubSeq(b, 40, 71), network_id |-> U32Value(SubSeq(b, 72, 75))]

\* ---- the device
\* The public key of the device and the secret it shares with the cloud
GwDevicePubKey == [i \in 1..32 |-> 2]

GwSharedKey == 201

\* The key id the device puts into its device-encrypted frames
GwDeviceKeyId == SecurityKeyId(RgCloudKey, GwDevicePubKey)

\* time.time() on both sides and the entropy of a header
GwUnixTime == 1731000000

GwEntropy == 43981

\* A serial frame as the device writes it: the counterpart of to_serial
\* with the keys the device holds
DeviceFrame(auth, network_id, ptype, payload) ==
    LET gps_time == U32LE(gps_seconds_from_unix(GwUnixTime))
        header == [version |-> 0, type |-> ptype,
                   flags |-> IF auth = "NETWORK" THEN ENCR_NETWORK ELSE ENCR_DEVICE,
                   key_metadata |-> IF auth = "NETWORK" THEN network_id ELSE GwDeviceKeyId,
                   device_id |-> IdA, gps_time |-> gps_time, sequence |-> 0,
                   entropy |-> GwEntropy]
        key == hkdf_derive(IF auth = "NETWORK" THEN <<"network", network_id>>
                           ELSE <<"device", GwSharedKey>>,
                           U32LE(TimeIdx(gps_time)), "serial")
        header_bytes == HeaderBytes(header)
        ciphertext == chachapoly_encrypt(key, SubSeq(header_bytes, 1, 11),
                                         SubSeq(header_bytes, 12, 23), payload)
    IN [bytes |-> header_bytes \o ciphertext.ct, tag |-> ciphertext.tag]

\* The response of the device to security_state: the cloud public key, the
\* device public key and the network id
SecurityStateResponse(request_id, network_id) ==
    ResponseHeaderBytes(request_id, SECURITY_STATE, 0)
        \o RgCloudKey \o GwDevicePubKey \o U32LE(network_id)

\* The first request id of the LocalRpcServer (random.randint)
GwFirstIds == {1, 300}

\* The frames the device may send, each with a name for the histories: data
\* under the key of a network of the keyring (1) or of another network (7),
\* data under the device key, a KEY_IDS packet, and responses to
\* security_state requests
GwFrames ==
    {[name |-> "tdf_network", auth |-> "NETWORK", ptype |-> TDF, payload |-> <<1>>,
      frame |-> DeviceFrame("NETWORK", 1, TDF, <<1>>)],
     [name |-> "tdf_other_network", auth |-> "NETWORK", ptype |-> TDF, payload |-> <<3>>,
      frame |-> DeviceFrame("NETWORK", 7, TDF, <<3>>)],
     [name |-> "tdf_device", auth |-> "DEVICE", ptype |-> TDF, payload |-> <<2>>,
      frame |-> DeviceFrame("DEVICE", 1, TDF, <<2>>)],
     [name |-> "key_ids", auth |-> "NETWORK", ptype |-> KEY_IDS, payload |-> <<5>>,
      frame |-> DeviceFrame("NETWORK", 1, KEY_IDS, <<5>>)]}
    \cup {[name |-> "security_state_rsp", auth |-> "NETWORK", ptype |-> RPC_RSP,
           payload |-> SecurityStateResponse(id + k, 1),
           frame |-> DeviceFrame("NETWORK", 1, RPC_RSP, SecurityStateResponse(id + k, 1))] :
          id \in GwFirstIds, k \in 0..1}

\* A frame damaged on the wire: bit k inverted
Damaged(name, f, k) ==
    [name |-> name, auth |-> f.auth, ptype |-> f.ptype, payload |-> f.payload,
     frame |-> FlipBit(f.frame, k), valid |-> FALSE]

\* The frames of the first request id only
GwFramesFirst ==
    {f \in GwFrames : f.name # "tdf_other_network" /\
        (f.name = "security_state_rsp" =>
            ResponseHeaderFrom(f.payload).request_id = 1)}

\* Frames that fail the tag check once their key is known: a bit of the tag,
\* of the ciphertext, of the nonce (sequence) and of the associated data
\* (type; key_metadata, which names network 0 then) inverted
GwDamagedFrames ==
    UNION {{Damaged("bad_tag", f, 8 * Len(f.frame.bytes)),
            Damaged("bad_ciphertext", f, 8 * VersionedFrameSize),
            Damaged("bad_nonce", f, 8 * 19),
            Damaged("bad_type", f, 8 + 3)} : f \in {g \in GwFrames : g.name = "tdf_device"}}
    \cup {Damaged("bad_network", f, 8 * 4) : f \in {g \in GwFrames : g.name = "tdf_network"}}

\* Was the frame written by the device and left alone on the wire?
FrameValid(f) == IF "valid" \in DOMAIN f THEN f.valid ELSE TRUE

\* Whose command an RPC_RSP frame answers: "gateway", "client", or "any"
\* when the run does not tell
FrameOrigin(f) == IF "origin" \in DOMAIN f THEN f.origin ELSE "any"

\* ---- the tool
\* DeviceDatabase.has_network_id
has_network_id(db, infuse_id) ==
    infuse_id \in DOMAIN db.devices /\ db.devices[infuse_id].network_id.some

\* DeviceDatabase.has_public_key.  The registry of the gateway tool keeps
\* device_public_key and bt_addr of the device states in tables of their
\* own (device_public_key, device_bt_addr) next to ddb.bt_addr.
has_public_key(db, infuse_id) ==
    infuse_id \in DOMAIN db.devices /\ infuse_id \in DOMAIN db.device_public_key

\* DeviceDatabase.infuse_id_from_bluetooth
infuse_id_from_bluetooth(db, bt_addr) ==
    IF bt_addr \in DOMAIN db.bt_addr THEN Some(db.bt_addr[bt_addr]) ELSE None

\* DeviceDatabase.observe_device(infuse_id, bt_addr=bt_addr)
observe_bt_addr(db, infuse_id, bt_addr) ==
    [observe_device(db, infuse_id, None, None).db EXCEPT
        !.bt_addr = DictPut(@, bt_addr, infuse_id),
        !.device_bt_addr = DictPut(@, infuse_id, bt_addr)]

\* DeviceDatabase.observe_security_state with the public key it stores;
\* cloud is what get_shared_secret returns
record_security_state(db, infuse_id, cloud_pub_key, device_pub_key, network_id, cloud) ==
    [observe_security_state(db, infuse_id, cloud_pub_key, device_pub_key, network_id,
                            cloud).db EXCEPT
        !.device_public_key = DictPut(@, infuse_id, device_pub_key)]

\* del d[k] on a dict
DictDrop(d, k) == [x \in DOMAIN d \ {k} |-> d[x]]

\* The state a handler works on, and how it ended: exc is the exception
\* that left it, "none" when it returned; conn and cbs collect the
\* connection notifications it broadcast and the callbacks it ran
GwState(db, rpc, port, bcast, exc) ==
    [db |-> db, rpc |-> rpc, port |-> port, bcast |-> bcast, exc |-> exc,
     conn |-> <<>>, cbs |-> <<>>]

\* CommonThreadState.query_device_key after rpc.generate: to_serial, then
\* port.write(encrypted); enc is what to_serial returned or raised
QueryWrite(st, request_id, enc) ==
    IF enc.exc # "none" THEN [st EXCEPT !.db = enc.db, !.exc = enc.exc]
    ELSE [st EXCEPT !.db = enc.db,
                    !.port = Append(@, [kind |-> "rpc_cmd", command |-> SECURITY_STATE,
                                        request_id |-> request_id])]

\* CommonThreadState.query_device_key(None), with LocalRpcServer.generate:
\* the request is queued and the counter moved on before to_serial runs.
\* The 16 random argument bytes are read by nothing here and are zeros.
query_device_key(st) ==
    IF ~st.db.gateway.some THEN [st EXCEPT !.exc = "AssertionError"]
    ELSE QueryWrite([st EXCEPT !.rpc = [cnt |-> st.rpc.cnt + 1,
                                        queued |-> DictPut(st.rpc.queued, st.rpc.cnt,
                                                           "security_state_done")]],
                    st.rpc.cnt,
                    to_serial(st.db, <<HopOutput(st.db.gateway.val, "NETWORK")>>, RPC_CMD,
                              RequestHeaderBytes(st.rpc.cnt, SECURITY_STATE) \o Zeros(16),
                              GwUnixTime, GwEntropy))

\* security_state_done, the callback of query_device_key: cloud is what
\* get_shared_secret returns
security_state_done(st, pkt, response, cloud) ==
    [st EXCEPT !.db = record_security_state(
                          st.db, pkt.route[1].infuse_id, PySlice(response, 0, 32),
                          PySlice(response, 32, 64),
                          U32Value(PySlice(response, 64, 68) \o Zeros(4)),
                          cloud)]

\* SerialTxThread._bt_connect_cb: the notification carries the infuse id
\* the registry holds for the peer of the response, None when it holds none
bt_connect_cb(st, pkt, rc, response) ==
    IF Len(response) < BtConnectResponseSize THEN [st EXCEPT !.exc = "ValueError"]
    ELSE [st EXCEPT !.conn =
             Append(@, [type |-> IF rc < 0 THEN CONNECTION_FAILED ELSE CONNECTION_CREATED,
                        connection_id |->
                            infuse_id_from_bluetooth(
                                st.db, BluetoothLeAddr(BtConnectResponseFrom(response).peer))])]

\* LocalRpcServer.handle, "Was this a BT connect response with key
\* information?"
BtConnectObserved(st, header, cloud) ==
    IF header.command_id # BT_CONNECT_INFUSE THEN st
    ELSE IF Len(header.response) < BtConnectResponseSize THEN [st EXCEPT !.exc = "ValueError"]
    ELSE Only({IF ~infuse_id.some THEN st
               ELSE [st EXCEPT !.db = record_security_state(
                                          st.db, infuse_id.val, resp.cloud_public_key,
                                          resp.device_public_key, resp.network_id, cloud)] :
               resp \in {BtConnectResponseFrom(header.response)},
               infuse_id \in {infuse_id_from_bluetooth(
                                  st.db,
                                  BluetoothLeAddr(SubSeq(header.response, 1, 7)))}})

\* LocalRpcServer.handle, "Run the callback": cb is what was popped from
\* _queued
RunCallback(st, cb, pkt, header, cloud) ==
    IF cb = "security_state_done" THEN security_state_done(st, pkt, header.response, cloud)
    ELSE IF cb = "bt_connect_cb" THEN bt_connect_cb(st, pkt, header.return_code, header.response)
    ELSE st

\* LocalRpcServer.handle after the header was read and a bt_connect_infuse
\* response was looked at: the callback queued under the request id of the
\* response is popped and run
HandleResponse(st, pkt, header, cloud) ==
    IF st.exc # "none" \/ header.request_id \notin DOMAIN st.rpc.queued THEN st
    ELSE RunCallback([st EXCEPT !.rpc.queued = DictDrop(@, header.request_id),
                                !.cbs = Append(@, [request_id |-> header.request_id,
                                                   cb |-> st.rpc.queued[header.request_id],
                                                   command_id |-> header.command_id])],
                     st.rpc.queued[header.request_id], pkt, header, cloud)

\* LocalRpcServer.handle
rpc_handle(st, pkt, cloud) ==
    IF pkt.ptype # RPC_RSP THEN st
    ELSE IF Len(pkt.payload) < 8 THEN [st EXCEPT !.exc = "ValueError"]
    ELSE Only({HandleResponse(BtConnectObserved(st, header, cloud), pkt, header, cloud) :
               header \in {ResponseHeaderFrom(pkt.payload)}})

\* _handle_serial_frame, the rest of the loop body once rpc.handle returned:
\* KEY_IDS queries the keys again, then the packet is broadcast
AfterHandle(st, pkt) ==
    IF st.exc # "none" THEN st
    ELSE Only({IF q.exc # "none" THEN q ELSE [q EXCEPT !.bcast = Append(@, pkt)] :
               q \in {IF pkt.ptype = KEY_IDS THEN query_device_key(st) ELSE st}})

\* A loop that handles the packets of a decoded frame last to first
RECURSIVE HandlePacketsReversed(_, _, _)
HandlePacketsReversed(st, packets, cloud) ==
    IF packets = <<>> \/ st.exc # "none" THEN st
    ELSE HandlePacketsReversed(
             AfterHandle(rpc_handle(st, packets[Len(packets)], cloud), packets[Len(packets)]),
             SubSeq(packets, 1, Len(packets) - 1), cloud)

\* _handle_serial_frame, the loop over the packets of a decoded frame
RECURSIVE HandlePackets(_, _, _)
HandlePackets(st, packets, cloud) ==
    IF packets = <<>> \/ st.exc # "none" THEN st
    ELSE HandlePackets(AfterHandle(rpc_handle(st, packets[1], cloud), packets[1]),
                       Tail(packets), cloud)

\* A handler of NoKeyError that pings and queries the device key as well
HandleNoKeyBoth(st) ==
    IF ~st.db.gateway.some THEN [st EXCEPT !.exc = "AssertionError"]
    ELSE query_device_key(
             [st EXCEPT !.port = Append(@, [kind |-> "ping", command |-> 0, request_id |-> 0])])

\* _handle_serial_frame, the handler of NoKeyError: ping while the network
\* id of the gateway is unknown, security_state otherwise; the frame is
\* dropped
HandleNoKey(st) ==
    IF ~st.db.gateway.some THEN [st EXCEPT !.exc = "AssertionError"]
    ELSE IF ~has_network_id(st.db, st.db.gateway.val)
    THEN [st EXCEPT !.port = Append(@, [kind |-> "ping", command |-> 0, request_id |-> 0])]
    ELSE query_device_key(st)

\* A handler without the except clause of InvalidTag
HandleDecodedUncaught(st, r, cloud) ==
    IF r.exc \in NoKeyErrors THEN HandleNoKey([st EXCEPT !.db = r.db])
    ELSE IF r.exc # "none" THEN [st EXCEPT !.db = r.db, !.exc = r.exc]
    ELSE HandlePackets([st EXCEPT !.db = r.db], r.packets, cloud)

\* _handle_serial_frame once from_serial returned or raised (r): NoKeyError
\* and InvalidTag are handled and the frame is dropped; any other exception
\* leaves the inner try
HandleDecoded(st, r, cloud) ==
    IF r.exc \in NoKeyErrors THEN HandleNoKey([st EXCEPT !.db = r.db])
    ELSE IF r.exc = "InvalidTag" THEN [st EXCEPT !.db = r.db]
    ELSE IF r.exc # "none" THEN [st EXCEPT !.db = r.db, !.exc = r.exc]
    ELSE HandlePackets([st EXCEPT !.db = r.db], r.packets, cloud)

\* What the outer try of _handle_serial_frame lets through: KeyError and
\* ValueError are printed and the handler returns
Caught(st) == IF st.exc \in KeyOrValueErrors THEN [st EXCEPT !.exc = "none"] ELSE st

NoFrame == [n |-> 0, name |-> "", auth |-> "", payload |-> <<>>, miss |-> "none",
            raised |-> "none", pings |-> 0, rpcs |-> 0, bcasts |-> 0, recorded |-> FALSE,
            had_shared_key |-> FALSE, gateway_network |-> None, valid |-> TRUE,
            origin |-> "any", payloads |-> <<>>, cbs |-> <<>>, conns |-> 0,
            queued_before |-> <<>>, db_before |-> <<>>, return_code |-> 0,
            prev |-> [miss |-> "none", name |-> ""]]

\* The writes of one kind among the writes added to the port
NewWrites(before, after, kind) ==
    Cardinality({i \in (Len(before) + 1)..Len(after) : after[i].kind = kind})

\* The network id of the gateway device, if the registry holds one
GatewayNetworkOf(db) ==
    IF db.gateway.some /\ db.gateway.val \in DOMAIN db.devices
    THEN db.devices[db.gateway.val].network_id ELSE None

\* The shared key of the gateway device, if the registry holds one
SharedKeyOf(db) ==
    IF db.gateway.some /\ db.gateway.val \in DOMAIN db.devices
    THEN db.devices[db.gateway.val].shared_key ELSE None

\* DeviceDatabase.__init__ for the gateway tool
NewRegistry ==
    [gateway |-> None, devices |-> <<>>, network_keys |-> {}, derived_keys |-> <<>>,
     bt_addr |-> <<>>, device_bt_addr |-> <<>>, device_public_key |-> <<>>]

\* The TX worker before its first request, and the history of its requests
TxIdle == [pc |-> "idle", req |-> <<>>, exc |-> "none", hop |-> 0]

NoRequest == [n |-> 0, name |-> "", handled |-> FALSE, exc |-> "none", conns |-> <<>>,
              writes |-> <<>>, queued |-> {}, bt_known |-> FALSE, key_known |-> FALSE,
              notified |-> 0, prev |-> ""]

\* The payloads a frame carries, in encoded order
FramePayloads(f) == IF "payloads" \in DOMAIN f THEN f.payloads ELSE <<f.payload>>

\* The return code of the response a frame carries, 0 when it carries none
FrameReturnCode(f) ==
    IF f.ptype = RPC_RSP /\ Len(f.payload) >= 8 THEN ResponseHeaderFrom(f.payload).return_code
    ELSE 0

\* The device answers the commands it was sent: a response that answers a
\* command of the gateway or of a client follows the write of that command
Solicited(f, port) ==
    IF FrameOrigin(f) = "any" THEN TRUE
    ELSE \E i \in 1..Len(port) :
            /\ port[i].kind = (IF FrameOrigin(f) = "gateway" THEN "rpc_cmd" ELSE "epacket")
            /\ port[i].request_id = ResponseHeaderFrom(f.payload).request_id
            /\ port[i].command = ResponseHeaderFrom(f.payload).command_id

\* The cloud answers get_shared_secret with the key or not at all; a frame
\* that is no response asks nothing
CloudAnswers(f) == IF f.ptype = RPC_RSP THEN {None, Some(GwSharedKey)} ELSE {None}

\* The Bluetooth address of device B
AddrB == [addr_type |-> 1, addr_val |-> <<11, 12, 13, 14, 15, 16>>]

\* The public key of device B
GwPeerPubKey == [i \in 1..32 |-> 3]

\* The response of the device to bt_connect_infuse: the peer, the cloud
\* public key, the public key of the peer and its network id
BtConnectResponse(request_id, return_code) ==
    ResponseHeaderBytes(request_id, BT_CONNECT_INFUSE, return_code)
        \o to_rpc_struct(AddrB) \o RgCloudKey \o GwPeerPubKey \o U32LE(1)

\* A response of the device to a command of the gateway
GatewayResponse(name, auth, payload) ==
    [name |-> name, auth |-> auth, ptype |-> RPC_RSP, payload |-> payload,
     frame |-> DeviceFrame(auth, 1, RPC_RSP, payload), origin |-> "gateway"]

\* The request ids of the responses of a run
GwResponseIds == 1..3

\* The frames of a run with connections: KEY_IDS, which makes the gateway
\* ask for the keys, the answers to security_state, and the answers to
\* bt_connect_infuse: connected (0), failed (-1), and failed with the
\* header alone
ConnectFrames ==
    {f \in GwFrames : f.name = "key_ids"}
    \cup {GatewayResponse("security_state_rsp", "NETWORK", SecurityStateResponse(id, 1)) :
          id \in GwResponseIds}
    \cup {GatewayResponse("bt_connect_rsp", "DEVICE", BtConnectResponse(id, rc)) :
          id \in GwResponseIds, rc \in {0, 0 - 1}}
    \cup {GatewayResponse("bt_connect_short", "DEVICE",
                          ResponseHeaderBytes(id, BT_CONNECT_INFUSE, 0 - 1)) :
          id \in GwResponseIds}

\* The frames of a run in which two clients ask for device B: KEY_IDS, the
\* answers to security_state, and the answers of a connected peer to
\* bt_connect_infuse
SharedFrames ==
    {f \in ConnectFrames : f.name \in {"key_ids", "security_state_rsp"}}
    \cup {GatewayResponse("bt_connect_rsp", "DEVICE", BtConnectResponse(id, 0)) :
          id \in GwResponseIds}

\* application_info.COMMAND_ID, a command of a client
APPLICATION_INFO == 9

\* The request ids of the commands of a client: the first id of the gateway
\* (tools/rpc.py draws the id at random) and another
ClientRequestIds == {1, 9}

\* The response of the device to a command of a client
ClientResponse(request_id) ==
    ResponseHeaderBytes(request_id, APPLICATION_INFO, 0) \o <<7, 7, 7, 7>>

\* The response of the device to a security_state command it refuses: a
\* negative return code and a body of zeros
SecurityStateRefused(request_id) ==
    ResponseHeaderBytes(request_id, SECURITY_STATE, 0 - 1) \o Zeros(68)

\* The frames of a run with commands of clients: KEY_IDS, the answers to
\* security_state, granted or refused, and the answers to the commands of
\* the client
RpcFrames ==
    {f \in GwFrames : f.name = "key_ids"}
    \cup {GatewayResponse("security_state_rsp", "NETWORK", SecurityStateResponse(id, 1)) :
          id \in 1..2}
    \cup {GatewayResponse("security_state_refused", "NETWORK", SecurityStateRefused(id)) :
          id \in 1..2}
    \cup {[name |-> "client_rsp", auth |-> "NETWORK", ptype |-> RPC_RSP,
           payload |-> ClientResponse(id),
           frame |-> DeviceFrame("NETWORK", 1, RPC_RSP, ClientResponse(id)),
           origin |-> "client"] : id \in ClientRequestIds}

\* ---- containers of received packets, as the gateway device writes them
\* bytes(CtypePacketReceived.CommonHeader): len_encr, rssi, if
CommonHeaderBytes(len, encrypted, rssi, if) ==
    U16LE(len + (IF encrypted THEN 32768 ELSE 0)) \o <<rssi, if>>

\* A tag slot of a record that carries no tag
NoTag == [mac |-> <<>>, flip |-> {}]

\* A record that is not encrypted: common header, address, decrypted header
\* and payload
PlainRecord(name, if, rssi, flags, key_id, sequence, payload) ==
    LET body == to_rpc_struct(AddrB) \o Reverse(IdB)
                    \o U32LE(gps_seconds_from_unix(GwUnixTime)) \o <<TDF>> \o U16LE(flags)
                    \o U16LE(sequence) \o U24LE(key_id) \o payload
    IN [name |-> name, encrypted |-> FALSE, if |-> if, rssi |-> rssi, flags |-> flags,
        key_id |-> key_id, sequence |-> sequence, payload |-> payload,
        bytes |-> CommonHeaderBytes(CommonHeaderSize + Len(body), FALSE, rssi, if) \o body,
        tag |-> NoTag]

\* A record encrypted under the key of a network for its interface: common
\* header, address and the frame of device B with its tag
EncryptedRecord(name, if, label, rssi, network_id, sequence, payload) ==
    LET gps_time == U32LE(gps_seconds_from_unix(GwUnixTime))
        header == [version |-> 0, type |-> TDF, flags |-> ENCR_NETWORK,
                   key_metadata |-> network_id, device_id |-> IdB, gps_time |-> gps_time,
                   sequence |-> sequence, entropy |-> GwEntropy]
        header_bytes == HeaderBytes(header)
        ciphertext == chachapoly_encrypt(
                          hkdf_derive(<<"network", network_id>>, U32LE(TimeIdx(gps_time)),
                                      label),
                          SubSeq(header_bytes, 1, 11), SubSeq(header_bytes, 12, 23), payload)
        body == to_rpc_struct(AddrB) \o header_bytes \o ciphertext.ct \o Zeros(16)
    IN [name |-> name, encrypted |-> TRUE, if |-> if, rssi |-> rssi, flags |-> ENCR_NETWORK,
        key_id |-> network_id, sequence |-> sequence, payload |-> payload,
        bytes |-> CommonHeaderBytes(CommonHeaderSize + Len(body), TRUE, rssi, if) \o body,
        tag |-> ciphertext.tag]

\* Well-formed records: plaintext from an advertisement and, with the device
\* flag set, from a connection; encrypted under the key of network 1 for
\* advertising and for GATT; and encrypted under the key of network 7, which
\* is not in the keyring
ContainerRecords ==
    {PlainRecord("plain_adv", 2, 60, ENCR_NETWORK, 1, 3, <<21>>),
     PlainRecord("plain_device", 4, 70, ENCR_DEVICE, 5, 4, <<22>>),
     EncryptedRecord("enc_adv", 2, "bt_adv", 61, 1, 5, <<23>>),
     EncryptedRecord("enc_gatt", 3, "bt_gatt", 62, 1, 6, <<24>>),
     EncryptedRecord("enc_other", 2, "bt_adv", 63, 7, 7, <<25>>)}

\* The bytes of a sequence of records, one after the other
RECURSIVE RecordBytes(_)
RecordBytes(records) ==
    IF records = <<>> THEN <<>> ELSE records[1].bytes \o RecordBytes(Tail(records))

\* The serial frame of a container that holds the records
ContainerFrame(records) ==
    [bytes |-> DeviceFrame("NETWORK", 1, RECEIVED_EPACKET, RecordBytes(records)).bytes,
     tag |-> DeviceFrame("NETWORK", 1, RECEIVED_EPACKET, RecordBytes(records)).tag,
     inner |-> [i \in 1..Len(records) |-> records[i].tag]]

\* Does the keyring hold the key of the record (a plaintext record needs
\* none)?
RecordKeyHeld(r) == r.encrypted => r.key_id \in KeyringNetworks

\* The payloads of the records of a container whose key the keyring holds,
\* in encoded order
RECURSIVE HeldPayloads(_)
HeldPayloads(records) ==
    IF records = <<>> THEN <<>>
    ELSE (IF RecordKeyHeld(records[1]) THEN <<records[1].payload>> ELSE <<>>)
             \o HeldPayloads(Tail(records))

\* The record of ContainerRecords with a name
RecordNamed(name) == CHOOSE r \in ContainerRecords : r.name = name

\* A container frame with a name for the histories
Container(name, records) ==
    [name |-> name, auth |-> "NETWORK", ptype |-> RECEIVED_EPACKET,
     payload |-> RecordBytes(records), frame |-> ContainerFrame(records),
     payloads |-> HeldPayloads(records)]

\* Frames of a gateway that forwards what it hears: data of its own, and
\* containers of two and of three records
NestedFrames ==
    {f \in GwFrames : f.name = "tdf_network"}
    \cup {Container("container_pair", <<RecordNamed("plain_adv"), RecordNamed("enc_adv")>>),
          Container("container_three", <<RecordNamed("enc_gatt"), RecordNamed("enc_other"),
                                         RecordNamed("plain_device")>>)}

\* A record of an advertisement with the device flag set in its frame header
DeviceAdvRecord(name, rssi, sequence) ==
    LET header == [version |-> 0, type |-> TDF, flags |-> ENCR_DEVICE,
                   key_metadata |-> GwDeviceKeyId, device_id |-> IdB,
                   gps_time |-> U32LE(gps_seconds_from_unix(GwUnixTime)),
                   sequence |-> sequence, entropy |-> GwEntropy]
        body == to_rpc_struct(AddrB) \o HeaderBytes(header) \o <<0>> \o Zeros(16)
    IN [name |-> name, encrypted |-> TRUE, if |-> 2, rssi |-> rssi, flags |-> ENCR_DEVICE,
        key_id |-> GwDeviceKeyId, sequence |-> sequence, payload |-> <<0>>,
        bytes |-> CommonHeaderBytes(CommonHeaderSize + Len(body), TRUE, rssi, 2) \o body,
        tag |-> NoTag]

\* A value of the type byte that names no member of InfuseType
UnknownType == CHOOSE t \in 0..255 : t \notin InfuseTypeValues

\* Frames the gateway cannot decode, between frames it can: a container
\* with a record heard on UDP, one with a device-encrypted advertisement, a
\* packet of an unknown type, a container cut inside a common header, a
\* frame cut inside its header, and data under a device key id other than
\* the one observed before
UndecodedFrames ==
    {f \in GwFrames : f.name \in {"tdf_network", "tdf_device"}}
    \cup {Container("container_udp",
                    <<PlainRecord("plain_udp", 1, 64, ENCR_NETWORK, 1, 8, <<26>>)>>),
          Container("container_device_adv", <<DeviceAdvRecord("device_adv", 65, 9)>>),
          [name |-> "unknown_type", auth |-> "NETWORK", ptype |-> UnknownType,
           payload |-> <<1>>, frame |-> DeviceFrame("NETWORK", 1, UnknownType, <<1>>)],
          [name |-> "short_container", auth |-> "NETWORK", ptype |-> RECEIVED_EPACKET,
           payload |-> <<1, 0>>,
           frame |-> DeviceFrame("NETWORK", 1, RECEIVED_EPACKET, <<1, 0>>)],
          [name |-> "short_header", auth |-> "NETWORK", ptype |-> TDF, payload |-> <<1>>,
           frame |-> [DeviceFrame("NETWORK", 1, TDF, <<1>>) EXCEPT
                          !.bytes = SubSeq(@, 1, VersionedFrameSize - 1)]]}
    \cup {Damaged("key_changed", f, 8 * 4) : f \in {g \in GwFrames : g.name = "tdf_device"}}

\* The frames that may arrive in a run
FeedFrames(feed) ==
    CASE feed = "keys" -> GwFrames
      [] feed = "tamper" -> GwFramesFirst \cup GwDamagedFrames
      [] feed = "connect" -> ConnectFrames
      [] feed = "shared" -> SharedFrames
      [] feed = "rpc" -> RpcFrames
      [] feed = "nested" -> NestedFrames
      [] feed = "undecoded" -> UndecodedFrames
      [] OTHER -> {}

\* The runs of the gateway service
GwFeeds == {"tamper", "requests", "connect", "shared", "rpc", "nested", "undecoded"}

GwInit ==
    /\ gw_db = NewRegistry
    /\ gw_rpc \in [cnt : GwFirstIds, queued : {<<>>}]
    /\ gw_port = <<>>
    /\ gw_bcast = <<>>
    /\ gw_dropped = <<>>
    /\ gw_h = NoFrame
    /\ gw_feed = "keys"
    /\ gw_conn = <<>>
    /\ gw_tx = TxIdle
    /\ gw_t = NoRequest

GwOff ==
    /\ gw_db = NewRegistry
    /\ gw_rpc = [cnt |-> 0, queued |-> <<>>]
    /\ gw_port = <<>>
    /\ gw_bcast = <<>>
    /\ gw_dropped = <<>>
    /\ gw_h = [NoFrame EXCEPT !.name = "off"]
    /\ gw_feed = "off"
    /\ gw_conn = <<>>
    /\ gw_tx = [TxIdle EXCEPT !.pc = "off"]
    /\ gw_t = NoRequest

\* SerialRxThread._handle_serial_frame(frame): the RX worker handles a frame
\* while no exception has ended it
GwHandleSerialFrame ==
    /\ gw_h.n < MaxFrames
    /\ gw_h.raised = "none"
    /\ gw_feed # "off"
    /\ \E f \in FeedFrames(gw_feed) : \E cloud \in CloudAnswers(f) :
          /\ Solicited(f, gw_port)
          /\ \E r \in {from_serial(gw_db, f.frame)} :
              \E st \in {HandleDecoded(GwState(gw_db, gw_rpc, gw_port, gw_bcast, "none"),
                                       r, cloud)} :
                  /\ gw_db' = st.db
                  /\ gw_rpc' = st.rpc
                  /\ gw_port' = st.port
                  /\ gw_bcast' = st.bcast
                  /\ gw_conn' = gw_conn \o st.conn
                  /\ gw_dropped' = IF r.exc = "DeviceUnknownDeviceKey"
                                   THEN Append(gw_dropped, f.payload) ELSE gw_dropped
                  /\ gw_h' = [n |-> gw_h.n + 1, name |-> f.name, auth |-> f.auth,
                              payload |-> f.payload, miss |-> r.exc,
                              raised |-> Caught(st).exc,
                              pings |-> NewWrites(gw_port, st.port, "ping"),
                              rpcs |-> NewWrites(gw_port, st.port, "rpc_cmd"),
                              bcasts |-> Len(st.bcast) - Len(gw_bcast),
                              had_shared_key |-> SharedKeyOf(gw_db).some,
                              gateway_network |-> GatewayNetworkOf(r.db),
                              recorded |-> /\ f.name = "security_state_rsp"
                                           /\ st.rpc.queued # gw_rpc.queued
                                           /\ SharedKeyOf(st.db).some,
                              valid |-> FrameValid(f), origin |-> FrameOrigin(f),
                              payloads |-> FramePayloads(f), cbs |-> st.cbs,
                              conns |-> Len(st.conn), queued_before |-> gw_rpc.queued,
                              db_before |-> gw_db, return_code |-> FrameReturnCode(f),
                              prev |-> [miss |-> gw_h.miss, name |-> gw_h.name]]
    /\ UNCHANGED <<gw_feed, gw_tx, gw_t, notGwVars>>

GwNext == GwHandleSerialFrame

\* ---- the TX worker
\* InfuseID.GATEWAY among the ids of the registry, which are byte sequences
GatewayId == <<GATEWAY>>

\* GatewayRequest.Type
EPACKET_SEND == 0

CONNECTION_REQUEST == 1

CONNECTION_RELEASE == 2

\* The exceptions of data.decode("utf-8") and json.loads
DecodeErrors == {"UnicodeDecodeError", "JSONDecodeError"}

\* A datagram that holds the JSON text of a dictionary
Datagram(values) == [text |-> "json", values |-> values]

\* PacketOutput.from_json as the send handler reads it: the fields of the
\* packet are looked up by name
EpacketFromJson(values) ==
    IF {"infuse_id", "auth", "ptype", "payload"} \subseteq DOMAIN values
    THEN [exc |-> "none", req |-> [type |-> EPACKET_SEND, epacket |-> values]]
    ELSE [exc |-> "KeyError", req |-> <<>>]

\* GatewayRequest.from_json
from_json(values) ==
    IF "type" \notin DOMAIN values THEN [exc |-> "KeyError", req |-> <<>>]
    ELSE IF values.type = EPACKET_SEND
    THEN IF "epacket" \notin DOMAIN values THEN [exc |-> "KeyError", req |-> <<>>]
         ELSE EpacketFromJson(values.epacket)
    ELSE IF values.type \in {CONNECTION_REQUEST, CONNECTION_RELEASE}
    THEN IF "infuse_id" \notin DOMAIN values THEN [exc |-> "KeyError", req |-> <<>>]
         ELSE [exc |-> "none",
               req |-> [type |-> values.type, connection_id |-> values.infuse_id]]
    ELSE [exc |-> "NotImplementedError", req |-> <<>>]

\* LocalServer.receive: recvfrom timed out (None), or the datagram is
\* decoded, parsed and handed to from_json; only TimeoutError is caught
receive(d) ==
    IF d.text = "timeout" THEN [exc |-> "none", req |-> None]
    ELSE IF d.text = "not_utf8" THEN [exc |-> "UnicodeDecodeError", req |-> None]
    ELSE IF d.text = "not_json" THEN [exc |-> "JSONDecodeError", req |-> None]
    ELSE Only({[exc |-> r.exc, req |-> IF r.exc = "none" THEN Some(r.req) ELSE None] :
               r \in {from_json(d.values)}})

\* server.broadcast of a connection notification; the id of a notification
\* is Some(id), or None where the code passes None
ConnNotify(st, type, connection_id) ==
    [st EXCEPT !.conn = Append(@, [type |-> type, connection_id |-> Some(connection_id)])]

\* rpc.generate(command, args, Auth.DEVICE, cb), cmd.to_serial and
\* port.write of _handle_conn_request and _handle_conn_release: the callback
\* is queued and the counter moved on before to_serial runs
ConnCommand(st, command_id, peer, args, cb) ==
    IF ~st.db.gateway.some THEN [st EXCEPT !.exc = "AssertionError"]
    ELSE LET request_id == st.rpc.cnt
             queued == [st EXCEPT !.rpc = [cnt |-> request_id + 1,
                                           queued |-> DictPut(st.rpc.queued, request_id, cb)]]
             enc == to_serial(st.db, <<HopOutput(st.db.gateway.val, "DEVICE")>>, RPC_CMD,
                              RequestHeaderBytes(request_id, command_id) \o args,
                              GwUnixTime, GwEntropy)
         IN IF enc.exc # "none" THEN [queued EXCEPT !.db = enc.db, !.exc = enc.exc]
            ELSE [queued EXCEPT !.db = enc.db,
                                !.port = Append(@, [kind |-> "rpc_cmd", command |-> command_id,
                                                    request_id |-> request_id,
                                                    peer |-> peer])]

\* bytes(bt_connect_infuse.request(peer, 10000, COMMAND, 0)) after the peer:
\* conn_timeout_ms, subscribe and inactivity_timeout_ms
BtConnectArgs == U16LE(10000) \o <<1>> \o U16LE(0)

\* A request handler that waits for the address instead of failing
handle_conn_request_resolving(st, req) ==
    IF req.connection_id = GatewayId
    THEN ConnNotify(st, CONNECTION_CREATED, req.connection_id)
    ELSE IF req.connection_id \notin DOMAIN st.db.devices
            \/ req.connection_id \notin DOMAIN st.db.device_bt_addr
    THEN st
    ELSE ConnCommand(st, BT_CONNECT_INFUSE, st.db.device_bt_addr[req.connection_id],
                     to_rpc_struct(st.db.device_bt_addr[req.connection_id]) \o BtConnectArgs,
                     "bt_connect_cb")

\* SerialTxThread._handle_conn_request
handle_conn_request(st, req) ==
    IF req.connection_id = GatewayId
    THEN ConnNotify(st, CONNECTION_CREATED, req.connection_id)
    ELSE IF req.connection_id \notin DOMAIN st.db.devices
            \/ req.connection_id \notin DOMAIN st.db.device_bt_addr
    THEN ConnNotify(st, CONNECTION_FAILED, req.connection_id)
    ELSE ConnCommand(st, BT_CONNECT_INFUSE, st.db.device_bt_addr[req.connection_id],
                     to_rpc_struct(st.db.device_bt_addr[req.connection_id]) \o BtConnectArgs,
                     "bt_connect_cb")

\* A release handler that keeps the connection while more than one
\* bt_connect_infuse was written and not yet undone
handle_conn_release_counted(st, req) ==
    IF req.connection_id = GatewayId THEN st
    ELSE IF req.connection_id \notin DOMAIN st.db.devices
            \/ req.connection_id \notin DOMAIN st.db.device_bt_addr
    THEN st
    ELSE IF Cardinality({i \in DOMAIN st.port : st.port[i].kind = "rpc_cmd"
                                                /\ st.port[i].command = BT_CONNECT_INFUSE})
            > 1 + Cardinality({i \in DOMAIN st.port : st.port[i].kind = "rpc_cmd"
                                                      /\ st.port[i].command = BT_DISCONNECT})
    THEN [st EXCEPT !.port = Append(@, [kind |-> "release_noted", command |-> BT_DISCONNECT,
                                        request_id |-> 0, peer |-> req.connection_id])]
    ELSE ConnCommand(st, BT_DISCONNECT, st.db.device_bt_addr[req.connection_id],
                     to_rpc_struct(st.db.device_bt_addr[req.connection_id]), "None")

\* SerialTxThread._handle_conn_release
handle_conn_release(st, req) ==
    IF req.connection_id = GatewayId THEN st
    ELSE IF req.connection_id \notin DOMAIN st.db.devices
            \/ req.connection_id \notin DOMAIN st.db.device_bt_addr
    THEN st
    ELSE ConnCommand(st, BT_DISCONNECT, st.db.device_bt_addr[req.connection_id],
                     to_rpc_struct(st.db.device_bt_addr[req.connection_id]), "None")

\* _handle_epacket_send, "Construct routed output"
RoutedOutput(db, pkt) ==
    IF pkt.infuse_id = GatewayId
    THEN <<[infuse_id |-> db.gateway.val, interface |-> "SERIAL", auth |-> pkt.auth]>>
    ELSE <<[infuse_id |-> db.gateway.val, interface |-> "SERIAL", auth |-> "DEVICE"],
           [infuse_id |-> pkt.infuse_id, interface |-> "BT_CENTRAL", auth |-> pkt.auth]>>

\* What the port log keeps of a written client packet: the header of the
\* command it carries
EpacketWritten(pkt) ==
    IF pkt.ptype = RPC_CMD /\ Len(pkt.payload) >= 6
    THEN [kind |-> "epacket", command |-> FromU16LE(SubSeq(pkt.payload, 5, 6)),
          request_id |-> U32Value(SubSeq(pkt.payload, 1, 4))]
    ELSE [kind |-> "epacket", command |-> 0 - 1, request_id |-> 0 - 1]

\* _handle_epacket_send, "Encode and encrypt payload" and "Write to serial
\* port"
EpacketWrite(st, pkt) ==
    Only({IF enc.exc # "none" THEN [st EXCEPT !.db = enc.db, !.exc = enc.exc]
          ELSE [st EXCEPT !.db = enc.db, !.port = Append(@, EpacketWritten(pkt))] :
          enc \in {to_serial(st.db, RoutedOutput(st.db, pkt), pkt.ptype, pkt.payload,
                             GwUnixTime, GwEntropy)}})

\* _handle_epacket_send from hop i of the route on: a hop under device
\* authentication whose public key the registry lacks sends a
\* security_state query and waits for its event (wait is the hop waited
\* at, 0 when the handler ran to its end)
RECURSIVE EpacketSendFrom(_, _, _)
EpacketSendFrom(st, pkt, i) ==
    IF i > Len(RoutedOutput(st.db, pkt)) THEN [st |-> EpacketWrite(st, pkt), wait |-> 0]
    ELSE IF RoutedOutput(st.db, pkt)[i].auth = "DEVICE"
            /\ ~has_public_key(st.db, RoutedOutput(st.db, pkt)[i].infuse_id)
    THEN Only({[st |-> q, wait |-> IF q.exc = "none" THEN i ELSE 0] :
               q \in {query_device_key(st)}})
    ELSE EpacketSendFrom(st, pkt, i + 1)

\* SerialTxThread._handle_epacket_send
handle_epacket_send(st, req) ==
    IF ~st.db.gateway.some THEN [st |-> st, wait |-> 0]
    ELSE EpacketSendFrom(st, req.epacket, 1)

\* SerialTxThread._iter, the body of the loop for a request
Dispatch(st, req) ==
    IF req.type = EPACKET_SEND THEN handle_epacket_send(st, req)
    ELSE IF req.type = CONNECTION_REQUEST
    THEN [st |-> handle_conn_request(st, req), wait |-> 0]
    ELSE IF req.type = CONNECTION_RELEASE
    THEN [st |-> handle_conn_release(st, req), wait |-> 0]
    ELSE [st |-> st, wait |-> 0]

\* The datagrams a client may send, each with a name for the histories
NamedDatagram(name, values) == [name |-> name, text |-> "json", values |-> values]

ConnRequestDatagram(name, infuse_id) ==
    NamedDatagram(name, [type |-> CONNECTION_REQUEST, infuse_id |-> infuse_id])

ConnReleaseDatagram(name, infuse_id) ==
    NamedDatagram(name, [type |-> CONNECTION_RELEASE, infuse_id |-> infuse_id])

\* EPACKET_SEND of an RPC command for the device infuse_id
SendDatagram(name, infuse_id, auth, payload) ==
    NamedDatagram(name, [type |-> EPACKET_SEND,
                         epacket |-> [infuse_id |-> infuse_id, auth |-> auth,
                                      ptype |-> RPC_CMD, payload |-> payload]])

\* recvfrom timing out
TimeoutDatagram == [name |-> "timeout", text |-> "timeout", values |-> <<>>]

\* Datagrams that cannot be deserialized: bytes that are no UTF-8, text that
\* is no JSON, a dictionary without "type" or without "infuse_id", and a
\* type tag no request has
UndecodableDatagrams ==
    {[name |-> "not_utf8", text |-> "not_utf8", values |-> <<>>],
     [name |-> "not_json", text |-> "not_json", values |-> <<>>],
     NamedDatagram("no_type", [infuse_id |-> IdB]),
     NamedDatagram("no_infuse_id", [type |-> CONNECTION_REQUEST]),
     NamedDatagram("unknown_type", [type |-> 7, infuse_id |-> IdB])}

UndecodableNames == {d.name : d \in UndecodableDatagrams}

\* The datagrams that may arrive in a run
FeedDatagrams(feed) ==
    CASE feed = "requests" ->
            UndecodableDatagrams
                \cup {TimeoutDatagram, ConnRequestDatagram("request_gateway", GatewayId),
                      ConnRequestDatagram("request_b", IdB)}
      [] feed = "connect" ->
            {ConnRequestDatagram("request_gateway", GatewayId),
             ConnRequestDatagram("request_b", IdB),
             ConnReleaseDatagram("release_gateway", GatewayId),
             ConnReleaseDatagram("release_b", IdB)}
      [] feed = "shared" ->
            {ConnRequestDatagram("request_b", IdB), ConnReleaseDatagram("release_b", IdB)}
      [] feed = "rpc" ->
            {SendDatagram("send_rpc_" \o ToString(id), GatewayId, "NETWORK",
                          RequestHeaderBytes(id, APPLICATION_INFO)) : id \in ClientRequestIds}
                \cup {SendDatagram("send_device", GatewayId, "DEVICE",
                                   RequestHeaderBytes(9, APPLICATION_INFO)),
                      SendDatagram("send_b", IdB, "NETWORK",
                                   RequestHeaderBytes(9, APPLICATION_INFO))}
      [] OTHER -> {}

\* Requests handled in a run at most: those of a run without frames and of
\* a run of two clients with one device, and one less in the other runs
\* with frames
MaxRequests == 3

RequestLimit(feed) ==
    IF feed \in {"requests", "shared"} THEN MaxRequests ELSE MaxRequests - 1

\* The entries of after that follow those of before
Added(before, after) == SubSeq(after, Len(before) + 1, Len(after))

\* The TX worker after a handler ended (or stopped to wait)
TxAfter(out, req) ==
    [pc |-> IF out.st.exc # "none" THEN "dead" ELSE IF out.wait > 0 THEN "wait" ELSE "idle",
     req |-> IF out.st.exc = "none" /\ out.wait > 0 THEN req ELSE <<>>,
     exc |-> out.st.exc,
     hop |-> IF out.st.exc = "none" THEN out.wait ELSE 0]

\* SerialTxThread._iter, one pass of its loop: receive a datagram and handle
\* the request it holds, up to the end of the handler or to the wait for
\* the event of a query.  An exception that leaves receive or a handler
\* leaves _iter and run_loop, and the worker ends.
TxHandleRequest ==
    /\ gw_tx.pc = "idle"
    /\ gw_t.n < RequestLimit(gw_feed)
    /\ \E d \in FeedDatagrams(gw_feed) : \E r \in {receive(d)} :
          \E out \in {IF r.exc # "none" \/ ~r.req.some
                      THEN [st |-> GwState(gw_db, gw_rpc, gw_port, gw_bcast, r.exc),
                            wait |-> 0]
                      ELSE Dispatch(GwState(gw_db, gw_rpc, gw_port, gw_bcast, "none"),
                                    r.req.val)} :
              /\ gw_db' = out.st.db
              /\ gw_rpc' = out.st.rpc
              /\ gw_port' = out.st.port
              /\ gw_conn' = gw_conn \o out.st.conn
              /\ gw_tx' = TxAfter(out, IF r.req.some THEN r.req.val ELSE <<>>)
              /\ gw_t' = [n |-> IF d.name = "timeout" THEN gw_t.n ELSE gw_t.n + 1,
                          name |-> d.name,
                          handled |-> r.exc = "none" /\ r.req.some,
                          exc |-> out.st.exc,
                          conns |-> out.st.conn,
                          writes |-> Added(gw_port, out.st.port),
                          queued |-> DOMAIN out.st.rpc.queued \ DOMAIN gw_rpc.queued,
                          bt_known |-> IdB \in DOMAIN gw_db.device_bt_addr,
                          key_known |-> SharedKeyOf(gw_db).some,
                          notified |-> Len(gw_conn),
                          prev |-> gw_t.name]
    /\ UNCHANGED <<gw_bcast, gw_dropped, gw_h, gw_feed, notGwVars>>

\* _handle_epacket_send once cb_event.wait(1.0) returned, the event set or
\* not: the loop over the hops goes on
TxResume ==
    /\ gw_tx.pc = "wait"
    /\ \E out \in {EpacketSendFrom(GwState(gw_db, gw_rpc, gw_port, gw_bcast, "none"),
                                   gw_tx.req.epacket, gw_tx.hop + 1)} :
          /\ gw_db' = out.st.db
          /\ gw_rpc' = out.st.rpc
          /\ gw_port' = out.st.port
          /\ gw_tx' = TxAfter(out, gw_tx.req)
          /\ gw_t' = [gw_t EXCEPT !.exc = out.st.exc,
                                  !.writes = @ \o Added(gw_port, out.st.port),
                                  !.queued = @ \cup (DOMAIN out.st.rpc.queued
                                                         \ DOMAIN gw_rpc.queued)]
    /\ UNCHANGED <<gw_bcast, gw_conn, gw_dropped, gw_h, gw_feed, notGwVars>>

\* DeviceDatabase.observe_device(infuse_id, bt_addr=bt_addr): the address
\* of device B is seen behind the gateway, whose own frame was decoded
\* first
GwObserveBluetooth ==
    /\ gw_feed \in {"connect", "shared"}
    /\ gw_db.gateway.some
    /\ IdB \notin DOMAIN gw_db.device_bt_addr
    /\ gw_db' = observe_bt_addr(gw_db, IdB, AddrB)
    /\ UNCHANGED <<gw_rpc, gw_port, gw_bcast, gw_dropped, gw_h, gw_feed, gw_conn, gw_tx,
                   gw_t, notGwVars>>

\* The gateway service with both workers
SvInit ==
    /\ gw_db = NewRegistry
    /\ gw_rpc = [cnt |-> 1, queued |-> <<>>]
    /\ gw_port = <<>>
    /\ gw_bcast = <<>>
    /\ gw_dropped = <<>>
    /\ gw_h = NoFrame
    /\ gw_feed \in GwFeeds
    /\ gw_conn = <<>>
    /\ gw_tx = TxIdle
    /\ gw_t = NoRequest

SvNext == GwHandleSerialFrame \/ TxHandleRequest \/ TxResume \/ GwObserveBluetooth

\* ------------------------------------------------------------------
\* PacketReceived.from_serial on containers of received packets
\* ------------------------------------------------------------------
\* The most records in a container
MaxRecords == 3

\* The containers a gateway device may send: up to MaxRecords well-formed
\* records, each plaintext or encrypted under a network key
CtInit ==
    /\ ct_records \in UNION {[1..n -> ContainerRecords] : n \in 0..MaxRecords}
    /\ ct_out = None

CtOff ==
    /\ ct_records = <<>>
    /\ ct_out = Some([exc |-> "off", packets |-> <<>>])

\* PacketReceived.from_serial(database, serial_frame) on the serial frame
\* that holds the records, with the registry of a gateway tool just started
CtFromSerial ==
    /\ ~ct_out.some
    /\ ct_out' = Some(from_serial(NewRegistry, ContainerFrame(ct_records)))
    /\ UNCHANGED <<ct_records, notCtVars>>

CtNext == CtFromSerial

\* ------------------------------------------------------------------
\* The RX and TX workers of the gateway tool, statement by statement
\* ------------------------------------------------------------------
\* The most frames one read_bytes completes
MaxReadFrames == 2

\* The most calls of rtt_write one packet takes
MaxParts == 2

\* Requests taken after stop() are counted up to this
MaxCounted == 2

\* The transports: SerialPort, RttPort
WkPorts == {"serial", "rtt"}

\* What the frame a device sent leads to in _handle_serial_frame: packets
\* to broadcast, NoKeyError, or the response to a security_state query
WkFrameKinds == {"data", "nokey", "security_state_rsp"}

\* The requests of clients: EPACKET_SEND to the gateway with NETWORK and
\* with DEVICE auth
WkRequestKinds == {"send_network", "send_device"}

RxAt(pc, pending, left) == [pc |-> pc, pending |-> pending, left |-> left]

TxAt(pc, kind, left, then) == [pc |-> pc, kind |-> kind, left |-> left, then |-> then]

WkInit ==
    /\ wk_port \in WkPorts
    /\ wk_sig = [rx |-> FALSE, tx |-> FALSE]
    /\ wk_rx = RxAt("test", 0, 0)
    /\ wk_tx = TxAt("test", "", 0, "")
    /\ wk_reg = "none"
    /\ wk_queued = FALSE
    /\ wk_h = [interleaved |-> FALSE, torn |-> FALSE, after_stop |-> 0]

WkOff ==
    /\ wk_port = "off"
    /\ wk_sig = [rx |-> TRUE, tx |-> TRUE]
    /\ wk_rx = RxAt("off", 0, 0)
    /\ wk_tx = TxAt("off", "", 0, "")
    /\ wk_reg = "none"
    /\ wk_queued = FALSE
    /\ wk_h = [interleaved |-> FALSE, torn |-> FALSE, after_stop |-> 0]

\* SubCommand.run, finally: rx_thread.stop()
RunStopRx ==
    /\ wk_port \in WkPorts
    /\ ~wk_sig.rx
    /\ wk_sig' = [wk_sig EXCEPT !.rx = TRUE]
    /\ UNCHANGED <<wk_port, wk_rx, wk_tx, wk_reg, wk_queued, wk_h, notWkVars>>

\* SubCommand.run, finally: tx_thread.stop()
RunStopTx ==
    /\ wk_port \in WkPorts
    /\ wk_sig.rx /\ ~wk_sig.tx
    /\ wk_sig' = [wk_sig EXCEPT !.tx = TRUE]
    /\ UNCHANGED <<wk_port, wk_rx, wk_tx, wk_reg, wk_queued, wk_h, notWkVars>>

\* Is the worker between two calls of rtt_write for one packet?
MidWrite(w) == w.pc = "write" /\ w.left > 0 /\ w.left < MaxParts

\* What one call of the port's write of a packet leaves to write: the
\* serial port takes the packet in one call; rtt_write takes all that is
\* left or, while more than one part is left, a part of it
LeftAfter(left) == IF wk_port = "serial" \/ left <= 1 THEN {0} ELSE {0, left - 1}

\* The RX worker once a frame is handled: the next frame of the read, or
\* back to run_loop
RxNextFrame == IF wk_rx.pending > 1 THEN RxAt("frame", wk_rx.pending - 1, 0) ELSE RxAt("test", 0, 0)

\* SignaledThread.run_loop of the RX worker: the test of the flag
RxTest ==
    /\ wk_rx.pc = "test"
    /\ wk_rx' = IF wk_sig.rx THEN RxAt("exited", 0, 0) ELSE RxAt("read", 0, 0)
    /\ UNCHANGED <<wk_port, wk_sig, wk_tx, wk_reg, wk_queued, wk_h, notWkVars>>

\* SerialRxThread._iter: read_bytes returns the bytes that arrived, which
\* complete k frames
RxRead ==
    /\ wk_rx.pc = "read"
    /\ \E k \in 0..MaxReadFrames :
          wk_rx' = IF k = 0 THEN RxAt("test", 0, 0) ELSE RxAt("frame", k, 0)
    /\ UNCHANGED <<wk_port, wk_sig, wk_tx, wk_reg, wk_queued, wk_h, notWkVars>>

\* SerialRxThread._handle_serial_frame up to its first blocking call: a
\* decoded frame is broadcast; NoKeyError queues a security_state query and
\* starts its write; the response to a query runs security_state_done,
\* which stores key id, network id and public key and then asks the cloud
RxFrame ==
    /\ wk_rx.pc = "frame"
    /\ \E kind \in WkFrameKinds :
          \/ /\ kind = "data"
             /\ wk_rx' = RxNextFrame
             /\ UNCHANGED <<wk_reg, wk_queued>>
          \/ /\ kind = "nokey"
             /\ wk_rx' = RxAt("write", wk_rx.pending, MaxParts)
             /\ wk_queued' = TRUE
             /\ UNCHANGED wk_reg
          \/ /\ kind = "security_state_rsp"
             /\ wk_queued
             /\ wk_rx' = RxAt("http", wk_rx.pending, 0)
             /\ wk_queued' = FALSE
             /\ wk_reg' = IF wk_reg = "complete" THEN "complete" ELSE "partial"
    /\ UNCHANGED <<wk_port, wk_sig, wk_tx, wk_h, notWkVars>>

\* port.write in the RX worker: one call of the transport's write
RxWrite ==
    /\ wk_rx.pc = "write"
    /\ \E left \in LeftAfter(wk_rx.left) :
          wk_rx' = IF left = 0 THEN RxNextFrame ELSE RxAt("write", wk_rx.pending, left)
    /\ wk_h' = [wk_h EXCEPT !.interleaved = @ \/ MidWrite(wk_tx)]
    /\ UNCHANGED <<wk_port, wk_sig, wk_tx, wk_reg, wk_queued, notWkVars>>

\* observe_security_state in the RX worker: get_shared_secret returns and
\* the shared key is stored when the cloud sent one
RxHttp ==
    /\ wk_rx.pc = "http"
    /\ \E answered \in BOOLEAN : wk_reg' = IF answered THEN "complete" ELSE wk_reg
    /\ wk_rx' = RxNextFrame
    /\ UNCHANGED <<wk_port, wk_sig, wk_tx, wk_queued, wk_h, notWkVars>>

\* SignaledThread.run_loop of the TX worker: the test of the flag
TxTest ==
    /\ wk_tx.pc = "test"
    /\ wk_tx' = IF wk_sig.tx THEN TxAt("exited", "", 0, "") ELSE TxAt("receive", "", 0, "")
    /\ UNCHANGED <<wk_port, wk_sig, wk_rx, wk_reg, wk_queued, wk_h, notWkVars>>

\* SerialTxThread._iter, "while req := self._common.server.receive()":
\* a timeout ends _iter, a request is handled
TxReceive ==
    /\ wk_tx.pc = "receive"
    /\ \/ /\ wk_tx' = TxAt("test", "", 0, "")
          /\ UNCHANGED wk_h
       \/ \E kind \in WkRequestKinds :
             /\ wk_tx' = TxAt("check", kind, 0, "")
             /\ wk_h' = [wk_h EXCEPT !.after_stop =
                             IF wk_sig.tx /\ @ < MaxCounted THEN @ + 1 ELSE @]
    /\ UNCHANGED <<wk_port, wk_sig, wk_rx, wk_reg, wk_queued, notWkVars>>

\* _handle_epacket_send: a DEVICE hop asks has_public_key and queries the
\* key when the record has none
TxCheck ==
    /\ wk_tx.pc = "check"
    /\ wk_tx' = IF wk_tx.kind = "send_device" /\ wk_reg = "none"
                THEN TxAt("write", wk_tx.kind, MaxParts, "wait")
                ELSE TxAt("encode", wk_tx.kind, 0, "")
    /\ wk_queued' = (wk_queued \/ (wk_tx.kind = "send_device" /\ wk_reg = "none"))
    /\ wk_h' = [wk_h EXCEPT !.torn = @ \/ (wk_tx.kind = "send_device" /\ wk_rx.pc = "http")]
    /\ UNCHANGED <<wk_port, wk_sig, wk_rx, wk_reg, notWkVars>>

\* port.write in the TX worker: one call of the transport's write; after
\* the query the worker waits for its callback, after a packet it receives
\* again
TxWrite ==
    /\ wk_tx.pc = "write"
    /\ \E left \in LeftAfter(wk_tx.left) :
          wk_tx' = IF left > 0 THEN [wk_tx EXCEPT !.left = left]
                   ELSE IF wk_tx.then = "wait" THEN TxAt("wait", wk_tx.kind, 0, "")
                   ELSE TxAt("receive", "", 0, "")
    /\ wk_h' = [wk_h EXCEPT !.interleaved = @ \/ MidWrite(wk_rx)]
    /\ UNCHANGED <<wk_port, wk_sig, wk_rx, wk_reg, wk_queued, notWkVars>>

\* query_device_key(cb_event): cb_event.wait(1.0) returns, set or not
TxWait ==
    /\ wk_tx.pc = "wait"
    /\ wk_tx' = TxAt("encode", wk_tx.kind, 0, "")
    /\ UNCHANGED <<wk_port, wk_sig, wk_rx, wk_reg, wk_queued, wk_h, notWkVars>>

\* _handle_epacket_send: to_serial reads the key of the hop; a DEVICE hop
\* whose record holds no shared key raises DeviceUnknownDeviceKey, which
\* ends the worker
TxEncode ==
    /\ wk_tx.pc = "encode"
    /\ wk_tx' = IF wk_tx.kind = "send_device" /\ wk_reg # "complete"
                THEN TxAt("dead", wk_tx.kind, 0, "")
                ELSE TxAt("write", wk_tx.kind, MaxParts, "receive")
    /\ wk_h' = [wk_h EXCEPT !.torn = @ \/ (wk_tx.kind = "send_device" /\ wk_rx.pc = "http")]
    /\ UNCHANGED <<wk_port, wk_sig, wk_rx, wk_reg, wk_queued, notWkVars>>

\* The steps of the RX worker, of the TX worker and of run
RxStep == RxTest \/ RxRead \/ RxFrame \/ RxWrite \/ RxHttp

TxStep == TxTest \/ TxReceive \/ TxCheck \/ TxWrite \/ TxWait \/ TxEncode

WkNext == RunStopRx \/ RunStopTx \/ RxStep \/ TxStep

\* ------------------------------------------------------------------
\* The reconstructor on what a peer wrote: frames, short frames, noise
\* ------------------------------------------------------------------
\* The most bytes the peer writes in a run
MaxSent == 12

\* The most bytes of a continuation tried to get the reconstructor idle
MaxContinuation == 3

\* The packets the peer frames
SentPackets == SeqsOf({PingPayload, SYNC[1]}, 1, MaxPktLen)

\* A piece of the stream with its kind
Piece(kind, packet, bytes) == [kind |-> kind, packet |-> packet, bytes |-> bytes]

\* What the peer may write in one go: a frame as SerialPort.write builds it,
\* a frame whose last payload byte is missing, the frame of an empty packet
\* (D5 CA 00 00), and a byte that belongs to no frame
SentPieces ==
    {Piece("frame", p, SerialWrite(p)) : p \in SentPackets}
    \cup {Piece("short", p, SubSeq(SerialWrite(p), 1, 3 + Len(p))) : p \in SentPackets}
    \cup {Piece("empty", <<>>, SerialWrite(<<>>)), Piece("noise", <<>>, <<0>>)}

\* The bytes of the pieces, one after the other
RECURSIVE PieceBytes(_)
PieceBytes(pieces) ==
    IF pieces = <<>> THEN <<>> ELSE pieces[1].bytes \o PieceBytes(Tail(pieces))

RsInit == rs_sent = <<>>

RsOff == rs_sent = <<>>

\* SerialRxThread._iter with rx the bytes of a piece the peer wrote
RxIterSent ==
    /\ \E piece \in SentPieces :
        LET st == RxLoop([length |-> rx_length, buffered |-> rx_buffered,
                          out |-> <<>>, frames |-> <<>>,
                          line |-> rx_line, log |-> <<>>, routed |-> <<>>], piece.bytes)
        IN /\ Len(rx_consumed) + Len(piece.bytes) <= MaxSent
           /\ rs_sent' = Append(rs_sent, piece)
           /\ rx_length' = st.length
           /\ rx_buffered' = st.buffered
           /\ rx_out' = rx_out \o st.out
           /\ rx_frames' = rx_frames \o st.frames
           /\ rx_consumed' = rx_consumed \o piece.bytes
           /\ rx_split' = rx_split + SplitFrames(st.out)
           /\ rx_line' = st.line
           /\ rx_log' = rx_log \o st.log
           /\ rx_routed' = rx_routed \o st.routed
    /\ UNCHANGED <<clVars, cdVars, dfVars, rgVars, inVars, thVars, gwVars, ctVars, wkVars, rqVars>>

RsNext == RxIterSent

\* ------------------------------------------------------------------
\* LocalRpcServer under the RX and the TX worker, statement by statement
\* ------------------------------------------------------------------
\* Calls of generate in a run at most
MaxGenerated == 3

\* The workers: SerialRxThread, SerialTxThread
RqWorkers == {"rx", "tx"}

\* The callbacks a worker passes to generate: query_device_key passes
\* security_state_done from both workers, _handle_conn_request passes
\* _bt_connect_cb and _handle_conn_release passes None
RqCallbacks(t) ==
    IF t = "rx" THEN {"security_state_done"}
    ELSE {"security_state_done", "bt_connect_cb", "None"}

\* The callback object of one call: security_state_done is a closure made
\* anew by each call of query_device_key
RqCallback(name, call) == [name |-> name, call |-> call]

\* A worker: where it is, and the locals of the call it is in (the id it put
\* in the header, its callback, the value of _cnt it loaded, the command
\* whose response it handles)
RqAt(pc, id, cb, tmp, rsp) == [pc |-> pc, id |-> id, cb |-> cb, tmp |-> tmp, rsp |-> rsp]

RqIdle == RqAt("idle", 0, RqCallback("", 0), 0, 0)

RqNoHistory == [calls |-> 0, replaced |-> FALSE, ran |-> <<>>, unanswered |-> 0]

\* LocalRpcServer.__init__: _cnt is drawn at random, _queued is empty
RqInit ==
    /\ rq_cnt \in GwFirstIds
    /\ rq_queued = <<>>
    /\ rq_th = [t \in RqWorkers |-> RqIdle]
    /\ rq_cmds = <<>>
    /\ rq_h = RqNoHistory

RqOff ==
    /\ rq_cnt = 0
    /\ rq_queued = <<>>
    /\ rq_th = [t \in RqWorkers |-> RqAt("off", 0, RqCallback("", 0), 0, 0)]
    /\ rq_cmds = <<>>
    /\ rq_h = RqNoHistory

\* generate, "cmd_bytes = bytes(rpc.RequestHeader(self._cnt, command)) +
\* args": the header takes the value of _cnt; the construction of the packet
\* follows before _cnt is read again
RqHeader(t) ==
    /\ rq_th[t].pc = "idle"
    /\ rq_h.calls < MaxGenerated
    /\ \E name \in RqCallbacks(t) :
          rq_th' = [rq_th EXCEPT ![t] = RqAt("queue", rq_cnt,
                                            RqCallback(name, rq_h.calls + 1), 0, 0)]
    /\ rq_h' = [rq_h EXCEPT !.calls = @ + 1]
    /\ UNCHANGED <<rq_cnt, rq_queued, rq_cmds, notRqVars>>

\* generate, "self._queued[self._cnt] = cb"
RqQueue(t) ==
    /\ rq_th[t].pc = "queue"
    /\ rq_queued' = DictPut(rq_queued, rq_cnt, rq_th[t].cb)
    /\ rq_h' = [rq_h EXCEPT !.replaced = @ \/ rq_cnt \in DOMAIN rq_queued]
    /\ rq_th' = [rq_th EXCEPT ![t].pc = "load"]
    /\ UNCHANGED <<rq_cnt, rq_cmds, notRqVars>>

\* generate, "self._cnt += 1": the load of the attribute
RqLoad(t) ==
    /\ rq_th[t].pc = "load"
    /\ rq_th' = [rq_th EXCEPT ![t].pc = "store", ![t].tmp = rq_cnt]
    /\ UNCHANGED <<rq_cnt, rq_queued, rq_cmds, rq_h, notRqVars>>

\* generate, "self._cnt += 1": the store of the sum, and "return cmd_pkt"
RqStore(t) ==
    /\ rq_th[t].pc = "store"
    /\ rq_cnt' = rq_th[t].tmp + 1
    /\ rq_cmds' = Append(rq_cmds, [id |-> rq_th[t].id, cb |-> rq_th[t].cb, by |-> t,
                                   written |-> FALSE, answered |-> FALSE])
    /\ rq_th' = [rq_th EXCEPT ![t].pc = "write", ![t].rsp = Len(rq_cmds) + 1]
    /\ UNCHANGED <<rq_queued, rq_h, notRqVars>>

\* to_serial and port.write of the caller of generate: the command is on
\* the wire; query_device_key(cb_event) of the TX worker then waits for
\* the event
RqWrite(t) ==
    /\ rq_th[t].pc = "write"
    /\ rq_cmds' = [rq_cmds EXCEPT ![rq_th[t].rsp].written = TRUE]
    /\ rq_th' = [rq_th EXCEPT ![t] =
                    IF t = "tx" /\ rq_th[t].cb.name = "security_state_done"
                    THEN [rq_th[t] EXCEPT !.pc = "wait"] ELSE RqIdle]
    /\ UNCHANGED <<rq_cnt, rq_queued, rq_h, notRqVars>>

\* query_device_key(cb_event): cb_event.wait(1.0) returns, set or not
RqWaitReturns ==
    /\ rq_th["tx"].pc = "wait"
    /\ rq_th' = [rq_th EXCEPT !["tx"] = RqIdle]
    /\ UNCHANGED <<rq_cnt, rq_queued, rq_cmds, rq_h, notRqVars>>

\* LocalRpcServer.handle in the RX worker on the response of the device to
\* a command that was written, up to "if header.request_id not in
\* self._queued: return"
RqHandle ==
    /\ rq_th["rx"].pc = "idle"
    /\ \E i \in DOMAIN rq_cmds :
          /\ rq_cmds[i].written /\ ~rq_cmds[i].answered
          /\ rq_cmds' = [rq_cmds EXCEPT ![i].answered = TRUE]
          /\ IF rq_cmds[i].id \in DOMAIN rq_queued
             THEN /\ rq_th' = [rq_th EXCEPT !["rx"] =
                                  RqAt("pop", rq_cmds[i].id, RqCallback("", 0), 0, i)]
                  /\ UNCHANGED rq_h
             ELSE /\ rq_h' = [rq_h EXCEPT !.unanswered = i]
                  /\ UNCHANGED rq_th
    /\ UNCHANGED <<rq_cnt, rq_queued, notRqVars>>

\* handle, "cb = self._queued.pop(header.request_id)" and the call of cb
RqPop ==
    /\ rq_th["rx"].pc = "pop"
    /\ rq_h' = [rq_h EXCEPT !.ran = Append(@, [cb |-> rq_queued[rq_th["rx"].id],
                                               cmd |-> rq_th["rx"].rsp])]
    /\ rq_queued' = DictDrop(rq_queued, rq_th["rx"].id)
    /\ rq_th' = [rq_th EXCEPT !["rx"] = RqIdle]
    /\ UNCHANGED <<rq_cnt, rq_cmds, notRqVars>>

\* The steps of a worker in generate and after it
RqGenerate == \E t \in RqWorkers : RqHeader(t) \/ RqQueue(t) \/ RqLoad(t) \/ RqStore(t) \/ RqWrite(t)

RqNext == RqGenerate \/ RqWaitReturns \/ RqHandle \/ RqPop

\* ------------------------------------------------------------------
\* Specifications
\* ------------------------------------------------------------------
FrameSpecInit == FrameInit /\ ClOff /\ CdOff /\ DfOff /\ RgOff /\ InOff /\ ThOff /\ GwOff /\ CtOff /\ WkOff /\ RsOff /\ RqOff

SpecFrame == FrameSpecInit /\ [][FrameNext]_vars

RpcSpecInit == ClInit /\ FrameOff /\ CdOff /\ DfOff /\ RgOff /\ InOff /\ ThOff /\ GwOff /\ CtOff /\ WkOff /\ RsOff /\ RqOff

SpecRpc == RpcSpecInit /\ [][ClNext]_vars

CodecSpecInit == CdInit /\ FrameOff /\ ClOff /\ DfOff /\ RgOff /\ InOff /\ ThOff /\ GwOff /\ CtOff /\ WkOff /\ RsOff /\ RqOff

SpecCodec == CodecSpecInit /\ [][CdNext]_vars

DiffSpecInit == DfInit /\ FrameOff /\ ClOff /\ CdOff /\ RgOff /\ InOff /\ ThOff /\ GwOff /\ CtOff /\ WkOff /\ RsOff /\ RqOff

RegistrySpecInit == RgInit /\ FrameOff /\ ClOff /\ CdOff /\ DfOff /\ InOff /\ ThOff /\ GwOff /\ CtOff /\ WkOff /\ RsOff /\ RqOff

SpecRegistry == RegistrySpecInit /\ [][RgNext]_vars

InstrSpecInit == InInit /\ FrameOff /\ ClOff /\ CdOff /\ DfOff /\ RgOff /\ ThOff /\ GwOff /\ CtOff /\ WkOff /\ RsOff /\ RqOff

SpecInstr == InstrSpecInit /\ [][InNext]_vars

ThreadSpecInit == ThInit /\ FrameOff /\ ClOff /\ CdOff /\ DfOff /\ RgOff /\ InOff /\ GwOff /\ CtOff /\ WkOff /\ RsOff /\ RqOff

GatewaySpecInit == GwInit /\ FrameOff /\ ClOff /\ CdOff /\ DfOff /\ RgOff /\ InOff /\ ThOff /\ CtOff /\ WkOff /\ RsOff /\ RqOff

SpecGateway == GatewaySpecInit /\ [][GwNext]_vars

ServiceSpecInit == SvInit /\ FrameOff /\ ClOff /\ CdOff /\ DfOff /\ RgOff /\ InOff /\ ThOff /\ CtOff /\ WkOff /\ RsOff /\ RqOff

SpecService == ServiceSpecInit /\ [][SvNext]_vars

ContainerSpecInit == CtInit /\ FrameOff /\ ClOff /\ CdOff /\ DfOff /\ RgOff /\ InOff /\ ThOff /\ GwOff /\ WkOff /\ RsOff /\ RqOff

SpecContainer == ContainerSpecInit /\ [][CtNext]_vars

WorkersSpecInit == WkInit /\ FrameOff /\ ClOff /\ CdOff /\ DfOff /\ RgOff /\ InOff /\ ThOff /\ GwOff /\ CtOff /\ RsOff /\ RqOff

ResyncSpecInit == FrameInit /\ RsInit /\ ClOff /\ CdOff /\ DfOff /\ RgOff /\ InOff /\ ThOff /\ GwOff /\ CtOff /\ WkOff /\ RqOff

SpecResync == ResyncSpecInit /\ [][RsNext]_vars

RpcServerSpecInit == RqInit /\ FrameOff /\ ClOff /\ CdOff /\ DfOff /\ RgOff /\ InOff /\ ThOff /\ GwOff /\ CtOff /\ WkOff /\ RsOff

SpecRpcServer == RpcServerSpecInit /\ [][RqNext]_vars

SpecWorkers == WorkersSpecInit /\ [][WkNext]_vars

\* Each worker is a thread of its own, which the scheduler lets run while
\* it can take a step
SpecWorkersLive == SpecWorkers /\ WF_vars(RxStep) /\ WF_vars(TxStep)

SpecThread == ThreadSpecInit /\ [][ThNext]_vars

\* The started thread is scheduled again and again and fn returns; nothing
\* obliges the owner to call start or stop
SpecThreadLive ==
    SpecThread /\ WF_vars(ThTest) /\ WF_vars(ThCall) /\ WF_vars(ThReturn)

SpecDiff == DiffSpecInit /\ [][DfNext]_vars

\* C4: streaming invariance.  However the byte stream was split into reads,
\* the frames handed on (contents and order) and the per-byte results are
\* those of the same stream delivered to a new reconstructor as one read,
\* and the reconstructor state is the one that single read leaves.
C4_StreamingInvariance ==
    LET one == RxLoop(RxFresh, rx_consumed)
    IN /\ rx_frames = one.frames
       /\ rx_out = one.out
       /\ rx_buffered = one.buffered

\* C4 witness: the ping sequence arrived in three reads, split inside the
\* sync and inside the length, and was emitted as one frame
C4_Witness ==
    /\ rx_consumed = SerialPing
    /\ rx_split = 1
    /\ rx_frames = <<(<<PingPayload>>)>>

\* The reconstructor is idle before byte i of the history
IdleBefore(i) == i = 1 \/ rx_out[i - 1][1] = FALSE \/ rx_out[i - 1][2].some

\* The bytes f were consumed from position i on
ConsumedAt(i, f) ==
    /\ i + Len(f) - 1 <= Len(rx_consumed)
    /\ SubSeq(rx_consumed, i, i + Len(f) - 1) = f

\* The frame f carrying packet p, consumed from position i on, produced no
\* packet before its last byte, exactly p on its last byte, and left the
\* reconstructor idle
EmittedAt(i, f, p) ==
    LET last == i + Len(f) - 1
    IN /\ \A k \in i..(last - 1) : rx_out[k] = <<TRUE, None>>
       /\ rx_out[last] = <<TRUE, Some(p)>>
       /\ (last = Len(rx_consumed) => rx_buffered = <<>>)
       /\ (last < Len(rx_consumed) => IdleBefore(last + 1))

\* C5: framing round trip.  Whenever the reconstructor is idle and the bytes
\* SerialPort.write produces for a packet follow, no frame is emitted before
\* the last byte, the packet is emitted on the last byte, and the
\* reconstructor is idle again; the ping sequence is emitted as <<0x4D>>.
C5_FramingRoundTrip ==
    \A i \in 1..Len(rx_consumed) :
        IdleBefore(i) =>
            /\ \A p \in SeqsOf(PktBytes, 1, MaxPktLen) :
                   ConsumedAt(i, SerialWrite(p)) => EmittedAt(i, SerialWrite(p), p)
            /\ (ConsumedAt(i, SerialPing) => EmittedAt(i, SerialPing, <<PingPayload>>))

\* C5 witness: a written two-byte packet that itself starts with a sync
\* byte went through the reconstructor
C5_Witness ==
    /\ rx_consumed = SerialWrite(<<213, 77>>)
    /\ rx_frames = <<(<<213, 77>>)>>
    /\ rx_buffered = <<>>


\* Number of CONNECTION_RELEASE requests for id among the requests sent
Releases(id) ==
    Cardinality({i \in 1..Len(cl_sent) : cl_sent[i] = ConnectionRelease(id)})

\* C8 (as claimed): connection_create returns normally, so that the scope
\* begins, only after a CONNECTION_CREATED has been observed.
C8_ScopeOnlyAfterCreated == cl_h.begun => cl_h.created >= 1

\* C9: exactly one CONNECTION_RELEASE, for the requested id, is sent per
\* connection scope, on every exit path (normal return, ConnectionRefused,
\* any other exception); none is sent before the scope ends, the client
\* holds no id but the requested one, the id is cleared by the release, and
\* a later close sends no second RELEASE.
C9_ExactlyOneRelease ==
    /\ cl_connection_id \in {None, Some(cl_cfg.id)}
    /\ \A i \in 1..Len(cl_sent) :
           cl_sent[i].type = "CONNECTION_RELEASE" => cl_sent[i].infuse_id = cl_cfg.id
    /\ (cl_pc = "done" => Releases(cl_cfg.id) = 1 /\ cl_connection_id = None)
    /\ (cl_pc # "done" => Releases(cl_cfg.id) = 0)

\* C9 witness: the scope began, an exception other than ConnectionRefused
\* ended the RPC, the release was sent and the client was closed afterwards
C9_Witness ==
    /\ cl_pc = "done"
    /\ cl_h.begun
    /\ cl_exc = "Error"
    /\ cl_h.closed
    /\ Releases(cl_cfg.id) = 1

\* C10 (as claimed): once a CONNECTION_DROPPED has been received while the
\* RPC is in progress, the client has stopped waiting, sends no further
\* packet and the caller sees ConnectionAborted.
C10_DroppedAborts ==
    cl_h.dropped =>
        /\ cl_pc \in {"finally", "done"}
        /\ cl_exc = "ConnectionAborted"
        /\ cl_h.sent_after_drop = 0

\* The requests of cl_sent that carry a packet of type ptype
SentOfType(ptype) ==
    {i \in 1..Len(cl_sent) :
        cl_sent[i].type = "EPACKET_SEND" /\ cl_sent[i].ptype = ptype}

\* The RPC_DATA chunks sent so far are not empty, no larger than the chunk
\* size, and lie one after the other from offset 0
ChunksConsecutive ==
    \A i \in 1..Len(cl_h.chunks) :
        /\ cl_h.chunks[i].size \in 1..ChunkSize
        /\ cl_h.chunks[i].offset =
              IF i = 1 THEN 0
              ELSE cl_h.chunks[i - 1].offset + cl_h.chunks[i - 1].size

\* The number of payload bytes sent so far
ChunkTotal ==
    IF cl_h.chunks = <<>> THEN 0
    ELSE cl_h.chunks[Len(cl_h.chunks)].offset + cl_h.chunks[Len(cl_h.chunks)].size

\* C11 (as claimed): in data-send mode RPC_CMD goes out before every chunk;
\* no chunk is sent before the initial DATA_ACK has been received; the
\* chunks are at most the chunk size and cover the payload exactly once in
\* increasing order; at most ack_period chunks have been sent since the last
\* DATA_ACK; and RPC_RSP is awaited only when the whole payload was sent.
C11_DataSendProtocol ==
    cl_cfg.mode = "data_send" =>
        /\ \A i \in SentOfType("RPC_DATA") : \E j \in SentOfType("RPC_CMD") : j < i
        /\ (cl_h.chunks # <<>> => cl_h.acked)
        /\ ChunksConsecutive
        /\ ChunkTotal <= cl_cfg.data_len
        /\ cl_h.since_ack <= AckPeriod
        /\ (cl_pc = "wait_rsp" => ChunkTotal = cl_cfg.data_len)

\* Every wait returned with its DATA_ACK, and two chunks have gone out since
\* the last one
C11_TwoChunksUnacked ==
    /\ cl_cfg.mode = "data_send"
    /\ cl_h.acked
    /\ ~cl_h.timed_out
    /\ cl_h.since_ack = 2 * AckPeriod

\* C12 (as claimed): once a wait of the RPC has ended because receive timed
\* out, the run is over with a Timeout raised to the caller, the RPC_CMD was
\* sent once, no chunk was sent after the timeout, and the RPC does not count
\* as completed.
C12_TimeoutSurfaced ==
    cl_h.timed_out =>
        /\ cl_pc \in {"finally", "done"}
        /\ cl_exc = "Timeout"
        /\ Cardinality(SentOfType("RPC_CMD")) = 1
        /\ cl_h.sent_after_timeout = 0
        /\ ~cl_h.completed

\* The initial DATA_ACK never came, the chunks were sent all the same and
\* run() returned without an exception
C12_SentAfterTimeout ==
    /\ cl_pc = "done"
    /\ cl_exc = "none"
    /\ cl_h.timed_out
    /\ ~cl_h.acked
    /\ cl_h.sent_after_timeout >= 2

\* ------------------------------------------------------------------
\* ePacket codec claims (SpecCodec)
\* ------------------------------------------------------------------
\* The frame reached from_serial as to_serial produced it
DecodedIntact == cd_pc = "decoded" /\ ~cd_flip.some

\* from_serial returned exactly the packet handed to to_serial, with one
\* serial hop of the gateway, the requested auth and the key id of that auth,
\* and looked up the key to_serial used
RoundTrip ==
    /\ cd_rx.exc = "none"
    /\ Len(cd_rx.packets) = 1
    /\ cd_rx.packets[1].ptype = cd_tx.ptype
    /\ cd_rx.packets[1].payload = cd_tx.payload
    /\ Len(cd_rx.packets[1].route) = 1
    /\ cd_rx.packets[1].route[1].infuse_id = cd_tx.gateway.val
    /\ cd_rx.packets[1].route[1].interface = "SERIAL"
    /\ cd_rx.packets[1].route[1].auth = cd_tx.route[1].auth
    /\ cd_rx.packets[1].route[1].key_identifier = cd_tx.key_metadata.val
    /\ cd_rx.key = cd_tx.key

\* C2 as stated: for every packet type, payload and auth mode that to_serial
\* could encode, from_serial of the encoded frame against the same registry
\* yields exactly that packet (one SERIAL hop of the gateway, the requested
\* auth, the key id of that auth) with the key to_serial selected.
C2_RoundTripEveryType == DecodedIntact => RoundTrip

\* C2 amended: the round trip holds for every packet type other than
\* RECEIVED_EPACKET when the outgoing hop addresses the gateway itself, the
\* device whose keys from_serial looks up.
C2_RoundTrip ==
    (/\ DecodedIntact
     /\ cd_tx.ptype # RECEIVED_EPACKET
     /\ cd_tx.route[1].infuse_id = cd_tx.gateway.val) => RoundTrip

\* A DEVICE-auth packet with a payload came back from from_serial
C2_Witness ==
    /\ DecodedIntact
    /\ cd_tx.route[1].auth = "DEVICE"
    /\ cd_tx.route[1].infuse_id = cd_tx.gateway.val
    /\ cd_tx.ptype = TDF
    /\ cd_tx.payload = <<255>>
    /\ RoundTrip

\* from_serial ran on a frame with one bit inverted
DecodedTampered == cd_pc = "decoded" /\ cd_flip.some

\* Bits of the fields from_serial reads before the tag is verified: bit 15 of
\* flags (byte 3), key_metadata (bytes 4..6) and device_id (bytes 7..14)
KeySelectBits == {31} \cup (32..119)

KeyErrors == {"UnknownNetworkError", "DeviceUnknownDeviceKey", "DeviceKeyChangedError"}

\* C3 as stated: inverting any single bit of the header, the ciphertext or
\* the tag makes from_serial fail with the AEAD's authentication error
\* (InvalidTag), whichever bit it is.
C3_EveryFlipIsAuthError == DecodedTampered => cd_rx.exc = "InvalidTag"

\* C3 amended: inverting any single bit makes from_serial fail and return no
\* packet, with InvalidTag or with a key lookup error (UnknownNetworkError,
\* DeviceUnknownDeviceKey, DeviceKeyChangedError) raised before the tag is
\* verified; for a frame whose hop addresses the gateway the failure is
\* InvalidTag for every bit outside flags bit 15, key_metadata and device_id.
C3_EveryFlipFails ==
    DecodedTampered =>
        /\ cd_rx.packets = <<>>
        /\ cd_rx.exc \in KeyErrors \cup {"InvalidTag"}
        /\ (/\ cd_flip.val \notin KeySelectBits
            /\ cd_tx.route[1].infuse_id = cd_tx.gateway.val) => cd_rx.exc = "InvalidTag"

\* A bit of the packet type (associated data) was inverted in a frame that
\* would have decoded, and from_serial raised InvalidTag
C3_Witness ==
    /\ DecodedTampered
    /\ cd_flip.val \in 8..15
    /\ cd_tx.route[1].infuse_id = cd_tx.gateway.val
    /\ cd_tx.payload # <<>>
    /\ cd_rx.exc = "InvalidTag"

\* ------------------------------------------------------------------
\* Binary patch engine: claims
\* ------------------------------------------------------------------
\* C1: for every pair (original, new), empty arrays included, generate
\* returns a patch, and applying that patch to the original gives new.
C1_GenerateRoundTrips ==
    /\ df_pc \in {"generated", "failed", "edited", "done"} => df_gen.exc = "none"
    /\ (df_pc = "done" /\ df_edit.kind = "none" /\ df_out.cmd = "patch")
          => df_out.exc = "none" /\ df_out.val = df_new

\* A generate that raised for a new array that is not empty
C1_Raised == df_pc = "failed" /\ df_gen.exc = "IndexError" /\ df_new # <<>>

\* C6: for a generated patch, a change of any single byte of the file makes
\* patch raise ValidationError and return nothing: a byte of the header,
\* header_crc included, fails the header CRC, and a byte of the body fails
\* the body CRC.
C6_AnyByteChangeRejected ==
    (df_pc = "done" /\ df_edit.kind = "byte" /\ df_out.cmd = "patch")
        => /\ df_out.exc = "ValidationError"
           /\ df_out.val = <<>>
           /\ df_out.why = IF df_edit.pos < HeaderSize THEN "header"
                           ELSE "data CRC"

\* A patch with a cached write whose cache region was changed, rejected
C6_Witness ==
    /\ df_pc = "done"
    /\ df_edit.kind = "byte"
    /\ df_edit.pos \in 28..(HeaderCrcLen - 1)
    /\ df_gen.cache # <<>>
    /\ df_out.cmd = "patch"
    /\ df_out.exc = "ValidationError"

\* C7: patch and dump raise ValidationError for every patch whose magic is
\* not magic_value, also when its header CRC, body length and body CRC are
\* consistent.
C7_OtherMagicRejected ==
    (df_pc = "done" /\ df_edit.kind = "magic" /\ HdrMagic(df_file) # magic_value)
        => df_out.exc = "ValidationError"

\* A patch with another magic that patch applied
C7_Accepted ==
    /\ df_pc = "done"
    /\ df_edit.kind = "magic"
    /\ HdrMagic(df_file) # magic_value
    /\ df_out.cmd = "patch"
    /\ df_out.exc = "none"
    /\ df_out.val = df_new

\* ---- routing of bytes to the log line
\* Byte i is the one at which sync is abandoned: the byte before it was a
\* first sync byte and it is not the second sync byte
SyncAbandonedAt(i) ==
    /\ i > 1
    /\ IdleBefore(i - 1)
    /\ rx_consumed[i - 1] = SYNC[1]
    /\ rx_consumed[i] # SYNC[2]

\* in_frame is false for a byte that arrives while idle and is not the
\* first sync byte and for the byte at which sync is abandoned, and true for
\* every other byte: from the first sync byte through the byte that
\* completes a frame
InFrameSignal ==
    \A i \in 1..Len(rx_out) :
        rx_out[i][1] = ~(\/ IdleBefore(i) /\ rx_consumed[i] # SYNC[1]
                         \/ SyncAbandonedAt(i))

\* The bytes appended to log lines, in order of arrival
AppendedBytes ==
    LET at == {i \in 1..Len(rx_routed) : rx_routed[i] = "appended"}
        nth(k) == CHOOSE i \in at : Cardinality({j \in at : j < i}) = k - 1
    IN [k \in 1..Cardinality(at) |-> rx_consumed[nth(k)]]

RECURSIVE Flatten(_)
Flatten(lines) == IF lines = <<>> THEN <<>> ELSE lines[1] \o Flatten(Tail(lines))

\* The lines written and the line being collected hold the appended bytes
\* and nothing else
LogHoldsAppended == Flatten(rx_log) \o rx_line = AppendedBytes

\* No sync, length or payload byte of an emitted frame went to the log
FrameBytesKept ==
    \A i \in 1..Len(rx_out) :
        rx_out[i][2].some =>
            \A k \in (i - 3 - Len(rx_out[i][2].val))..i : rx_routed[k] = "frame"

\* C17 (as claimed): in_frame is true from the first sync byte through the
\* byte that completes a frame and false for an idle byte that is not the
\* first sync byte and for the byte at which sync is abandoned; the RX
\* worker appends a byte to the log line exactly when in_frame is false; no
\* byte of an emitted frame reaches the log.
C17_AppendedIffNotInFrame ==
    /\ InFrameSignal
    /\ \A i \in 1..Len(rx_out) : (rx_routed[i] = "appended") <=> ~rx_out[i][1]
    /\ LogHoldsAppended
    /\ FrameBytesKept

\* C17 (amended): the in_frame signal is as claimed; a byte goes to the log
\* side exactly when in_frame is false, where a newline ends the line and is
\* not itself appended and every other such byte is appended; no byte of an
\* emitted frame reaches the log.
C17_LogSideIffNotInFrame ==
    /\ InFrameSignal
    /\ \A i \in 1..Len(rx_out) :
          /\ (rx_routed[i] \in {"appended", "newline"}) <=> ~rx_out[i][1]
          /\ (rx_routed[i] = "newline") <=> (~rx_out[i][1] /\ rx_consumed[i] = Newline)
    /\ LogHoldsAppended
    /\ FrameBytesKept

\* A frame was emitted after a newline that ended a line
C17_FrameAfterNewline ==
    /\ rx_frames # <<>>
    /\ rx_routed # <<>>
    /\ rx_routed[1] = "newline"

\* ------------------------------------------------------------------
\* Device registry claims (SpecRegistry)
\* ------------------------------------------------------------------
\* The last call observed a device key id for a record that had one
ObservedAgain ==
    /\ rg_h.op \in {"observe_device", "observe_security_state"}
    /\ rg_h.before.some
    /\ rg_h.seen.some

\* C13 (as claimed): once a record's device_key_id is set, an operation that
\* observes a different device key id for the same infuse id fails with
\* DeviceKeyChangedError and leaves the stored device_key_id unchanged, so
\* the device_key_id of a record never changes after it is first set.
C13_DeviceKeyIdNeverChanges ==
    (rg_h.op \in {"observe_device", "observe_security_state"} /\ rg_h.before.some) =>
        /\ KeyIdOf(rg_db, rg_h.infuse_id) = rg_h.before
        /\ (rg_h.seen.some /\ rg_h.seen # rg_h.before) => rg_h.exc = "DeviceKeyChangedError"

\* A security_state response replaced the device key id of a record
C13_KeyIdReplaced ==
    /\ ObservedAgain
    /\ rg_h.op = "observe_security_state"
    /\ rg_h.seen # rg_h.before
    /\ rg_h.exc = "none"
    /\ KeyIdOf(rg_db, rg_h.infuse_id) = rg_h.seen

\* The info label the registry documents for an interface
InterfaceLabel(interface) ==
    CASE interface = "SERIAL" -> "serial"
      [] interface = "BT_ADV" -> "bt_adv"
      [] interface = "BT_PERIPHERAL" -> "bt_gatt"
      [] interface = "BT_CENTRAL" -> "bt_gatt"

\* gps_time div 86400, on the integer the four bytes hold (the times of
\* RgGpsTimes are far below 2^31)
DayOf(gps_time) ==
    (gps_time[1] + 256 * gps_time[2] + 65536 * gps_time[3] + 16777216 * gps_time[4])
        \div 86400

\* The root a key of the last lookup is derived from: the network key of the
\* record's network id, or the record's shared secret
RootOf(db, h) ==
    IF h.auth = "NETWORK" THEN <<"network", db.devices[h.infuse_id].network_id.val>>
    ELSE <<"device", db.devices[h.infuse_id].shared_key.val>>

\* The last call was a key lookup that returned a key
KeyReturned == rg_h.op = "key" /\ rg_h.exc = "none"

\* Every key returned is the HKDF of the root, u32_le(day) and the label
KeyIsHkdf ==
    KeyReturned =>
        rg_h.key = Some(hkdf_derive(RootOf(rg_db, rg_h), U32LE(DayOf(rg_h.gps_time)),
                                    InterfaceLabel(rg_h.interface)))

\* No step removes or changes an entry of _derived_keys
CacheEntriesKept ==
    \A k \in DOMAIN rg_db.derived_keys :
        /\ k \in DOMAIN rg_db'.derived_keys
        /\ rg_db'.derived_keys[k] = rg_db.derived_keys[k]

\* C14: every key returned for (infuse id, interface, gps_time) equals
\* HKDF-SHA256(root, salt = u32_le(gps_time div 86400), info = interface
\* label), with root the network key of the record's network id or the
\* record's shared secret, whether or not it comes from the derived-key
\* cache; so two gps_times of one day give one key and BT_PERIPHERAL and
\* BT_CENTRAL share the label bt_gatt.  An entry of the cache never changes
\* once inserted.
C14_DerivedKeys == [](KeyIsHkdf) /\ [][CacheEntriesKept]_vars

\* A Bluetooth GATT network key for the last second of day 1 is served
\* from the cache, which holds entries of other interfaces or days as well
C14_CacheHit ==
    /\ KeyReturned
    /\ rg_h.hit
    /\ rg_h.interface \in {"BT_PERIPHERAL", "BT_CENTRAL"}
    /\ rg_h.gps_time = U32LE(172799)
    /\ Cardinality(DOMAIN rg_db.derived_keys) >= 3

\* ------------------------------------------------------------------
\* Instruction claims (SpecInstr)
\* ------------------------------------------------------------------
\* _common_writes has run on the instruction list
CommonWritesDone == in_arg.fn = "common_writes" /\ in_out.some

\* The cache region an entry list takes: one length byte and the payload
\* per entry
RECURSIVE EncodedCacheLen(_)
EncodedCacheLen(cached) ==
    IF cached = <<>> THEN 0 ELSE 1 + Len(cached[1]) + EncodedCacheLen(Tail(cached))

\* How often a payload is written by the instruction list
Occurrences(instructions, data) ==
    Cardinality({i \in 1..Len(instructions) :
                    instructions[i].op = "WRITE" /\ instructions[i].data = data})

\* C15: write-cache selection yields at most 16 entries whose encoding (one
\* length byte plus the payload per entry) totals at most 128 bytes; every
\* entry is a write payload of at least 8 bytes that occurs at least 3
\* times; every WRITE_CACHED index emitted is in 0..15 and names an
\* existing entry.
C15_WriteCacheLimits ==
    CommonWritesDone =>
        /\ Len(in_out.val.cache) <= 16
        /\ EncodedCacheLen(in_out.val.cache) <= 128
        /\ \A i \in 1..Len(in_out.val.cache) :
              /\ Len(in_out.val.cache[i]) >= 8
              /\ Occurrences(in_arg.instructions, in_out.val.cache[i]) >= 3
        /\ \A k \in 1..Len(in_out.val.instr) :
              in_out.val.instr[k].op = "CACHED" =>
                  /\ in_out.val.instr[k].idx \in 0..15
                  /\ in_out.val.instr[k].idx < Len(in_out.val.cache)

\* The cache region is full (14 entries of 8 bytes), a payload that occurs
\* three times was left out for it, and the last entry is referred to
C15_CacheFull ==
    /\ CommonWritesDone
    /\ Len(in_out.val.cache) = 14
    /\ \E k \in 1..Len(in_out.val.instr) :
          in_out.val.instr[k].op = "CACHED" /\ in_out.val.instr[k].idx = 13
    /\ \E k \in 1..Len(in_out.val.instr) :
          /\ in_out.val.instr[k].op = "WRITE"
          /\ Occurrences(in_arg.instructions, in_out.val.instr[k].data) >= 3

\* bytes() and from_bytes have run on a COPY or a WRITE
CodecDone == in_arg.fn = "codec" /\ in_out.some

\* The length-field width the claim gives a length: the opcode offset from
\* the U4 variant, and the bytes of the opcode and length field
SmallestVariant(len) ==
    IF len <= 15 THEN [op |-> 0, size |-> 1]
    ELSE IF len <= 4095 THEN [op |-> 16, size |-> 2]
    ELSE IF len <= 1048575 THEN [op |-> 32, size |-> 3]
    ELSE [op |-> 48, size |-> 5]

\* C16: COPY(len) and a WRITE of len bytes are encoded with the smallest
\* variant able to hold len (U4 up to 15, U12 up to 4095, U20 up to 1048575,
\* otherwise U32); decoding the encoded instruction returns the same length
\* (and the same data for WRITE), consumes exactly the encoded bytes and
\* advances the original cursor by len.
C16_SmallestVariantRoundTrip ==
    CodecDone =>
        /\ in_out.val.opcode = (IF in_arg.op = "COPY" THEN COPY_LEN_U4 ELSE WRITE_LEN_U4)
                                 + SmallestVariant(in_arg.length).op
        /\ in_out.val.encoded_len = SmallestVariant(in_arg.length).size
                                      + (IF in_arg.op = "COPY" THEN 0 ELSE in_arg.length)
        /\ in_out.val.exc = "none"
        /\ in_out.val.same
        /\ in_out.val.consumed = in_out.val.encoded_len
        /\ in_out.val.original_offset = in_arg.original_offset + in_arg.length

\* A WRITE of 4096 bytes, the shortest with a 20-bit length field, decoded
\* from the middle of a buffer
C16_WriteU20 ==
    /\ CodecDone
    /\ in_arg.op = "WRITE"
    /\ in_arg.length = 4096
    /\ in_arg.offset = 2
    /\ in_arg.original_offset = 5
    /\ in_out.val.opcode = WRITE_LEN_U20
    /\ in_out.val.same

\* ------------------------------------------------------------------
\* SignaledThread claims (SpecThreadLive)
\* ------------------------------------------------------------------
\* Thread.is_alive()
IsAlive == th_pc \in {"check", "call", "in_fn"}

\* A started thread ends only after stop(), and starts at most one
\* invocation of fn after stop() was first called
StopsOnlyWhenSignaled ==
    /\ th_pc = "done" => th_sig
    /\ th_h.after_stop <= 1
    /\ th_sig <=> th_h.stops > 0

\* The signal is never cleared, and stop() on a set signal changes neither
\* the signal nor where the thread is
StopIsOneWay ==
    /\ th_sig => th_sig'
    /\ (th_sig /\ th_h'.stops # th_h.stops) => UNCHANGED <<th_sig, th_pc, th_count>>

BroadcastFromDevice(payload) ==
    \E k \in 1..Len(gw_bcast) :
        gw_bcast[k].payload = payload /\ gw_bcast[k].route[1].auth = "DEVICE"

DroppedForDeviceKey ==
    gw_h.miss = "DeviceUnknownDeviceKey" =>
        /\ gw_h.bcasts = 0
        /\ gw_h.pings = (IF gw_h.gateway_network.some THEN 0 ELSE 1)
        /\ gw_h.rpcs = (IF /\ gw_h.gateway_network.some
                            /\ gw_h.gateway_network.val \in KeyringNetworks
                         THEN 1 ELSE 0)

\* A device-encrypted frame that arrives when the shared key is recorded is
\* decoded and broadcast
DecodedOnceRecorded ==
    (gw_h.auth = "DEVICE" /\ gw_h.had_shared_key) =>
        /\ gw_h.miss = "none"
        /\ gw_h.bcasts = 1
        /\ BroadcastFromDevice(gw_h.payload)

DroppedOrDecoded == DroppedForDeviceKey /\ DecodedOnceRecorded

\* A step broadcasts at most the packet of the frame it handles, never a
\* frame handled before
OnlyCurrentFrameBroadcast ==
    \/ gw_bcast' = gw_bcast
    \/ /\ Len(gw_bcast') = Len(gw_bcast) + 1
       /\ SubSeq(gw_bcast', 1, Len(gw_bcast)) = gw_bcast
       /\ gw_h'.miss = "none"
       /\ gw_bcast'[Len(gw_bcast')].payload = gw_h'.payload

C20_ReactionByKindOfMiss ==
    /\ gw_h.miss \in {"UnknownNetworkError", "DeviceUnknownNetworkKey"} =>
          (gw_h.pings = 1 /\ gw_h.rpcs = 0)
    /\ gw_h.miss = "DeviceUnknownDeviceKey" => (gw_h.rpcs = 1 /\ gw_h.pings = 0)

\* The first frame of a run is device-encrypted: the device key is unknown
\* and the worker writes a ping
C20_PingForDeviceKey ==
    /\ gw_h.n = 1
    /\ gw_h.miss = "DeviceUnknownDeviceKey"
    /\ gw_h.pings = 1
    /\ gw_h.rpcs = 0

\* ------------------------------------------------------------------
\* Gateway service claims (SpecService)
\* ------------------------------------------------------------------
\* The payload of the frame handled last is the last packet broadcast
BroadcastLast ==
    /\ gw_h.bcasts = 1
    /\ gw_bcast[Len(gw_bcast)].payload = gw_h.payload
    /\ gw_bcast[Len(gw_bcast)].route[1].auth = gw_h.auth

\* A frame whose tag fails is dropped and nothing else happens: nothing is
\* broadcast, no callback runs, the callback table is as it was, nothing is
\* written to the port and no exception leaves the handler
TagFailureDropsFrame ==
    gw_h.miss = "InvalidTag" =>
        /\ gw_h.bcasts = 0
        /\ gw_h.conns = 0
        /\ gw_h.cbs = <<>>
        /\ gw_rpc.queued = gw_h.queued_before
        /\ gw_h.pings = 0
        /\ gw_h.rpcs = 0
        /\ gw_h.raised = "none"

\* A damaged frame is never broadcast
DamagedNeverBroadcast == ~gw_h.valid => (gw_h.bcasts = 0 /\ gw_h.miss # "none")

\* The frame that follows a frame whose tag failed is decoded and broadcast
\* when it is intact and the registry holds its key: a frame under the key
\* of a keyring network, or under the device key once the shared key is
\* recorded
ValidAfterTagFailure ==
    (gw_h.prev.miss = "InvalidTag" /\ gw_h.valid
        /\ (gw_h.auth = "NETWORK" \/ gw_h.had_shared_key)) =>
            (gw_h.miss = "none" /\ BroadcastLast)

\* C21: a frame whose AEAD verification fails produces no EPACKET_RECV
\* notification and runs no RPC callback, the RX worker keeps running, and
\* the next valid frame on the transport is decoded and broadcast.
C21_TagFailureDropsOnlyTheFrame ==
    TagFailureDropsFrame /\ DamagedNeverBroadcast /\ ValidAfterTagFailure

\* A device-encrypted frame with a bit of its ciphertext inverted failed the
\* tag check, and the intact device-encrypted frame after it was broadcast
C21_DecodedAfterTagFailure ==
    /\ gw_feed = "tamper"
    /\ gw_h.prev = [miss |-> "InvalidTag", name |-> "bad_ciphertext"]
    /\ gw_h.name = "tdf_device"
    /\ gw_h.miss = "none"
    /\ BroadcastLast

\* C22: a datagram on the request socket that cannot be deserialized is
\* dropped: no request is handled for it, the TX worker keeps running, and
\* the next well-formed request is handled normally; a receive timeout is
\* reported as no message.
C22_UndecodableDatagramDropped ==
    /\ gw_t.name \in UndecodableNames =>
            (~gw_t.handled /\ gw_t.writes = <<>> /\ gw_t.conns = <<>>
                /\ gw_tx.pc = "idle" /\ gw_tx.exc = "none")
    /\ (gw_t.prev \in UndecodableNames /\ gw_t.name = "request_gateway") =>
            (gw_t.handled
                /\ gw_t.conns = <<[type |-> CONNECTION_CREATED, connection_id |-> Some(GatewayId)]>>)
    /\ gw_t.name = "timeout" => (~gw_t.handled /\ gw_tx.exc = "none")

\* A datagram whose text is no JSON ended the TX worker: JSONDecodeError left
\* receive, the loop of _iter and run_loop
C22_WorkerEndedByDatagram ==
    /\ gw_t.name = "not_json"
    /\ ~gw_t.handled
    /\ gw_tx.pc = "dead"
    /\ gw_tx.exc = "JSONDecodeError"

\* The notification a handler broadcast for device B
ConnFor(type) == [type |-> type, connection_id |-> Some(IdB)]

\* Is the entry of the port log a bt_connect_infuse command?
IsConnectCommand(w) == w.kind = "rpc_cmd" /\ w.command = BT_CONNECT_INFUSE

\* A write of bt_connect_infuse in this step
ConnectWritten ==
    \E i \in (Len(gw_port) + 1)..Len(gw_port') : IsConnectCommand(gw_port'[i])

\* C25 as stated: a CONNECTION_REQUEST for a device whose Bluetooth address
\* is not known moves the connection to Resolving with no CONNECTION_FAILED
\* broadcast for it.
C25_UnknownAddressResolves ==
    (gw_t.name = "request_b" /\ ~gw_t.bt_known) =>
        \A i \in 1..Len(gw_t.conns) : gw_t.conns[i] # ConnFor(CONNECTION_FAILED)

\* The request for a device without a known address fails at once
UnknownAddressFails ==
    (gw_t.name = "request_b" /\ ~gw_t.bt_known) =>
        /\ gw_t.conns = <<ConnFor(CONNECTION_FAILED)>>
        /\ gw_t.writes = <<>>
        /\ gw_t.queued = {}
        /\ gw_t.exc = "none"

\* C25: a CONNECTION_REQUEST for a device whose Bluetooth address is not
\* known broadcasts one CONNECTION_FAILED for it, writes no command and
\* queues no callback; when the address becomes available later nothing is
\* emitted for the failed request: bt_connect_infuse is written only while
\* a CONNECTION_REQUEST is handled with the address known.
C25_UnknownAddressFailsAtOnce ==
    [][/\ UnknownAddressFails'
       /\ ConnectWritten => (gw_t' # gw_t /\ gw_t'.name = "request_b" /\ gw_t'.bt_known)]_vars

\* A request for B failed while its address was unknown, and the request
\* after it, with the address known, wrote bt_connect_infuse
C25_RequestedAgainOnceKnown ==
    /\ gw_feed = "connect"
    /\ \E i \in 1..Len(gw_conn) : gw_conn[i] = ConnFor(CONNECTION_FAILED)
    /\ gw_t.name = "request_b"
    /\ gw_t.prev = "request_b"
    /\ gw_t.bt_known
    /\ Len(gw_t.writes) = 1
    /\ IsConnectCommand(gw_t.writes[1])

\* The frame just handled answers a bt_connect_infuse command whose
\* callback was queued
ConnectCompleted ==
    /\ gw_h.name \in {"bt_connect_rsp", "bt_connect_short"}
    /\ gw_h.miss = "none"
    /\ ResponseHeaderFrom(gw_h.payload).request_id \in DOMAIN gw_h.queued_before
    /\ gw_h.queued_before[ResponseHeaderFrom(gw_h.payload).request_id] = "bt_connect_cb"

\* Is the entry of the port log a bt_disconnect command?
IsDisconnectCommand(w) == w.kind = "rpc_cmd" /\ w.command = BT_DISCONNECT

\* C26: each completed bt_connect_infuse RPC started for a CONNECTION_REQUEST
\* broadcasts exactly one connection notification with the id of the
\* requested device, CONNECTION_CREATED when return_code >= 0 and
\* CONNECTION_FAILED when return_code < 0; a request for the local gateway
\* id is answered with CONNECTION_CREATED without any RPC; a
\* CONNECTION_RELEASE for a device with a known Bluetooth address emits
\* exactly one bt_disconnect RPC.
C26_ConnectionOutcomes ==
    /\ ConnectCompleted =>
            /\ gw_h.conns = 1
            /\ gw_conn[Len(gw_conn)] =
                   ConnFor(IF gw_h.return_code < 0 THEN CONNECTION_FAILED
                           ELSE CONNECTION_CREATED)
    /\ gw_t.name = "request_gateway" =>
            /\ gw_t.conns = <<[type |-> CONNECTION_CREATED, connection_id |-> Some(GatewayId)]>>
            /\ gw_t.writes = <<>>
    /\ (gw_t.name = "release_b" /\ gw_t.bt_known) =>
            (Len(gw_t.writes) = 1 /\ IsDisconnectCommand(gw_t.writes[1]))

\* A release for B, whose address is known, wrote nothing and ended the TX
\* worker: the registry lacks the shared key of the gateway
C26_ReleaseWithoutKey ==
    /\ gw_t.name = "release_b"
    /\ gw_t.bt_known
    /\ ~gw_t.key_known
    /\ gw_t.writes = <<>>
    /\ gw_tx.pc = "dead"
    /\ gw_tx.exc = "DeviceUnknownDeviceKey"

\* The command a callback was registered for
CommandOf(cb) ==
    CASE cb = "security_state_done" -> SECURITY_STATE
      [] cb = "bt_connect_cb" -> BT_CONNECT_INFUSE
      [] OTHER -> BT_DISCONNECT

\* C29: the internal RPC dispatcher runs a callback only for an RPC_RSP that
\* answers a command the gateway itself generated: each registered callback
\* runs at most once and only for the response to its own command, never
\* for a response to a client-originated RPC, and never for a packet of
\* another type.
C29_CallbackOnlyForOwnCommand ==
    \A i \in 1..Len(gw_h.cbs) :
        /\ gw_h.origin # "client"
        /\ gw_h.name # "key_ids"
        /\ gw_h.cbs[i].command_id = CommandOf(gw_h.cbs[i].cb)
        /\ gw_h.cbs[i].request_id \in DOMAIN gw_h.queued_before
        /\ gw_h.cbs[i].request_id \notin DOMAIN gw_rpc.queued

\* The answer to the application_info command of a client, whose request id
\* a security_state query of the gateway was queued under, ran the callback
\* of the query
C29_ClientResponseRanCallback ==
    /\ gw_h.name = "client_rsp"
    /\ gw_h.origin = "client"
    /\ gw_h.cbs = <<[request_id |-> 1, cb |-> "security_state_done",
                     command_id |-> APPLICATION_INFO]>>

\* What a handshake sets in the record of a device: the public key, the
\* device key id and the shared secret
HandshakeFields(db, infuse_id) ==
    [device_public_key |-> IF infuse_id \in DOMAIN db.device_public_key
                           THEN Some(db.device_public_key[infuse_id]) ELSE None,
     device_key_id |-> IF infuse_id \in DOMAIN db.devices
                       THEN db.devices[infuse_id].device_key_id ELSE None,
     shared_key |-> IF infuse_id \in DOMAIN db.devices
                    THEN db.devices[infuse_id].shared_key ELSE None]

\* The frame just handled is a handshake response with a negative return
\* code
HandshakeRefused ==
    /\ gw_h.name \in {"security_state_refused", "bt_connect_rsp", "bt_connect_short"}
    /\ gw_h.miss = "none"
    /\ gw_h.return_code < 0

\* C30: the public key, device key id and shared secret of a device record
\* are set from a handshake only after a successful handshake RPC: a
\* security_state or bt_connect_infuse response with a negative return code
\* leaves the record unchanged.
C30_RefusedHandshakeLeavesRecord ==
    HandshakeRefused =>
        \A infuse_id \in {IdA, IdB} :
            HandshakeFields(gw_db, infuse_id) = HandshakeFields(gw_h.db_before, infuse_id)

\* A refused security_state response ran the callback of the query and its
\* body of zeros was recorded as the public key of the gateway
C30_RefusedResponseRecorded ==
    /\ gw_h.name = "security_state_refused"
    /\ gw_h.return_code < 0
    /\ Len(gw_h.cbs) = 1
    /\ IdA \notin DOMAIN gw_h.db_before.device_public_key
    /\ IdA \in DOMAIN gw_db.device_public_key
    /\ gw_db.device_public_key[IdA] = Zeros(32)

\* The notifications a step adds to the broadcasts
AddedBroadcasts == SubSeq(gw_bcast', Len(gw_bcast) + 1, Len(gw_bcast'))

\* The frames that are containers of received packets
ContainerNames == {"container_pair", "container_three"}

\* A step keeps the notifications broadcast before it and adds, after them,
\* packets of the frame it handles in encoded order; for a container it adds
\* every packet whose key the registry holds
BroadcastsAppendedInOrder ==
    /\ Len(gw_bcast') >= Len(gw_bcast)
    /\ SubSeq(gw_bcast', 1, Len(gw_bcast)) = gw_bcast
    /\ Len(AddedBroadcasts) <= Len(gw_h'.payloads)
    /\ \A i \in 1..Len(AddedBroadcasts) : AddedBroadcasts[i].payload = gw_h'.payloads[i]
    /\ (gw_h' # gw_h /\ gw_h'.name \in ContainerNames) =>
           Len(AddedBroadcasts) = Len(gw_h'.payloads)

\* C27: EPACKET_RECV notifications are broadcast in the order the frames
\* completed on the transport: every notification of a frame precedes
\* every notification of a later frame, and the inner packets of a
\* received-epacket container are broadcast in container-encoded order
\* before any notification of the next outer frame.
C27_BroadcastInFrameOrder == [][BroadcastsAppendedInOrder]_vars

\* A container of two records was handled after a data frame and before
\* another: the broadcasts end with the data, the two inner packets in
\* encoded order, and the data again
C27_ContainerBetweenFrames ==
    /\ gw_feed = "nested"
    /\ gw_h.name = "tdf_network"
    /\ gw_h.prev.name = "container_pair"
    /\ Len(gw_bcast) = 4
    /\ [i \in 1..4 |-> gw_bcast[i].payload] = <<<<1>>, <<21>>, <<23>>, <<1>>>>
    /\ Len(gw_bcast[2].route) = 2

\* The hop of the serial frame that carries the container
CarrierHop == hop_received(SerialFrameDecrypt(NewRegistry, ContainerFrame(ct_records)).header)

\* The packet the claim describes for a record: the hop of the record, then
\* the hop of the carrier
RecordPacket(r) ==
    [route |-> <<[infuse_id |-> IdB, interface |-> InterfaceOf[r.if + 1],
                  interface_address |-> AddrB,
                  auth |-> IF (r.flags \div 32768) % 2 = 1 THEN "DEVICE" ELSE "NETWORK",
                  key_identifier |-> r.key_id,
                  gps_time |-> U32LE(gps_seconds_from_unix(GwUnixTime)),
                  sequence |-> r.sequence, rssi |-> 0 - r.rssi],
                 CarrierHop>>,
     ptype |-> TDF, payload |-> r.payload]

\* The packets of a sequence of records, in order
RecordPackets(records) == [i \in 1..Len(records) |-> RecordPacket(records[i])]

\* C28 as stated: decoding a RECEIVED_EPACKET payload that holds N
\* well-formed inner records (network-encrypted or plaintext) yields exactly
\* N packets in encoded order, each with the two-hop route [inner hop,
\* carrier hop], the inner hop carrying the fields of the record with the
\* RSSI negated.
C28_EveryRecordYieldsPacket ==
    (ct_out.some /\ ct_out.val.exc # "off") =>
        /\ ct_out.val.exc = "none"
        /\ ct_out.val.packets = RecordPackets(ct_records)

\* C28 (amended): decoding a RECEIVED_EPACKET payload that holds N
\* well-formed inner records (network-encrypted or plaintext) yields, in
\* encoded order, one packet for each record that is plaintext or encrypted
\* under a network key the registry holds, and none for a record encrypted
\* under a network key the registry does not hold; each packet has the
\* two-hop route [inner hop, carrier hop] in which the carrier hop is the
\* hop of the outer serial header and the inner hop carries the device id,
\* interface, address, auth (DEVICE iff bit 15 of the flags is set), key
\* id, gps_time and sequence of the record, with RSSI equal to the negated
\* common-header byte; each record, skipped or not, consumes exactly len
\* bytes of the payload.
C28_HeldRecordsYieldPackets ==
    (ct_out.some /\ ct_out.val.exc # "off") =>
        /\ ct_out.val.exc = "none"
        /\ ct_out.val.packets = RecordPackets(SelectSeq(ct_records, RecordKeyHeld))

\* A container of three records, the second under the key of a network
\* that is not in the keyring, was decoded into the first and the third
C28_SkippedBetweenDecoded ==
    /\ ct_out.some
    /\ Len(ct_records) = 3
    /\ [i \in 1..3 |-> ct_records[i].name] = <<"enc_gatt", "enc_other", "plain_device">>
    /\ [i \in 1..2 |-> ct_out.val.packets[i].payload] = <<<<24>>, <<22>>>>
    /\ ct_out.val.packets[2].route[1].auth = "DEVICE"
    /\ ct_out.val.packets[2].route[1].rssi = -70

\* The service is stopped: stop() was called on both workers
Stopped == wk_sig.rx /\ wk_sig.tx

\* Both workers left run_loop (or were ended by an exception)
WorkersExited == wk_rx.pc = "exited" /\ wk_tx.pc \in {"exited", "dead"}

\* C23: after the service is stopped both workers eventually exit, even
\* when transport bytes and client requests keep arriving: the RX worker
\* handles at most the bytes of the read in progress and the TX worker at
\* most the request in progress before the flag is tested again.
C23_StoppedWorkersExit == Stopped ~> WorkersExited

\* The TX worker took a second request after stop() without a test of
\* the flag in between
C23_RequestsTakenAfterStop ==
    /\ Stopped
    /\ wk_tx.pc = "check"
    /\ wk_h.after_stop = MaxCounted

\* C24: across the RX and TX workers transport writes are mutually
\* exclusive (a frame written by one worker is never interleaved with a
\* frame written by the other) and registry operations are mutually
\* exclusive (no worker reads a device record while the other is in the
\* middle of a registry update).
C24_WorkersExclusive == ~wk_h.interleaved /\ ~wk_h.torn

\* On RTT a worker wrote between two parts of a packet of the other, and
\* the TX worker read the record of the gateway while the RX worker waited
\* for the cloud in observe_security_state and was ended by the missing
\* shared key
C24_InterleavedAndTorn ==
    /\ wk_port = "rtt"
    /\ wk_h.interleaved
    /\ wk_h.torn
    /\ wk_tx.pc = "dead"

\* The packets of the pieces that are frames, in order
RECURSIVE FramedPackets(_)
FramedPackets(pieces) ==
    IF pieces = <<>> THEN <<>>
    ELSE (IF pieces[1].kind = "frame" THEN <<pieces[1].packet>> ELSE <<>>)
             \o FramedPackets(Tail(pieces))

\* C31: a short frame (a frame whose last payload byte is missing from
\* the stream) is dropped: the reconstructor resets to idle without
\* emitting it, the bytes that follow are not consumed as its missing
\* payload, and a valid frame that follows immediately is emitted intact.
C31_ShortFrameDropped ==
    (\A i \in 1..Len(rs_sent) : rs_sent[i].kind \in {"frame", "short"}) =>
        \A n \in 1..Len(rs_sent) :
            rs_sent[n].kind = "frame" =>
                /\ Len(rx_frames) >= Len(FramedPackets(SubSeq(rs_sent, 1, n)))
                /\ SubSeq(rx_frames, 1, Len(FramedPackets(SubSeq(rs_sent, 1, n))))
                       = FramedPackets(SubSeq(rs_sent, 1, n))

\* The peer wrote the header of a one-byte frame without its payload and
\* then a whole frame: the short frame was emitted with the first sync
\* byte of the next frame as its payload, and the next frame was lost
C31_SyncByteTakenAsPayload ==
    /\ Len(rs_sent) = 2
    /\ rs_sent[1] = Piece("short", <<PingPayload>>, <<213, 202, 1, 0>>)
    /\ rs_sent[2] = Piece("frame", <<PingPayload>>, SerialPing)
    /\ rx_frames = <<(<<213>>)>>
    /\ rx_buffered = <<>>

\* The reconstructor as it stands, to be fed more bytes
RxPending ==
    [length |-> rx_length, buffered |-> rx_buffered, out |-> <<>>, frames |-> <<>>,
     line |-> <<>>, log |-> <<>>, routed |-> <<>>]

\* Is the reconstructor idle after the bytes c, and does it then emit every
\* frame the peer writes?
IdleAfter(c) ==
    LET st == RxLoop(RxPending, c)
    IN /\ st.buffered = <<>>
       /\ \A p \in SentPackets :
              RxLoop([st EXCEPT !.frames = <<>>], SerialWrite(p)).frames = <<p>>

\* C34: the reconstructor can always get back to idle: from every
\* reachable state there is a finite continuation of the input after which
\* the pending frame is completed or abandoned, in particular after a
\* header that declares length 0 (D5 CA 00 00); its buffer holds less than
\* the frame it waits for, hence never more than 4 + 65535 bytes; and
\* well-formed frames fed afterwards are emitted.
C34_CanGetBackToIdle ==
    /\ \E c \in SeqsOf({0, 1}, 0, MaxContinuation) : IdleAfter(c)
    /\ Len(rx_buffered) >= 4 => Len(rx_buffered) < 4 + rx_length
    /\ Len(rx_buffered) <= 4 + 65535

\* The peer wrote the frame of an empty packet, a whole frame and a stray
\* byte: nothing was emitted and all the bytes are still in the buffer
C34_BufferedPastEmptyFrame ==
    /\ Len(rs_sent) = 3
    /\ rs_sent[1].kind = "empty"
    /\ rs_sent[2].kind = "frame"
    /\ rs_sent[3].kind = "noise"
    /\ rx_frames = <<>>
    /\ rx_length = 0
    /\ rx_buffered = rx_consumed

\* The operations of the PATCH macros of an instruction list
PatchMacros(instr) ==
    {instr[i].operations : i \in {k \in 1..Len(instr) : instr[k].op = "PATCH"}}

\* A copy at every odd place and a write at every even place
Alternating(ops) ==
    \A i \in 1..Len(ops) : ops[i].op = IF i % 2 = 1 THEN "COPY" ELSE "WRITE"

\* Every length is one that the byte of a macro can hold
LengthsFit(ops) ==
    \A i \in 1..Len(ops) :
        IF ops[i].op = "COPY" THEN ops[i].length \in 1..127
        ELSE ops[i].op = "WRITE" => Len(ops[i].data) \in 1..255

\* The bytes moved by the operations of a macro
RECURSIVE OpsSpan(_)
OpsSpan(ops) ==
    IF ops = <<>> THEN 0
    ELSE (IF ops[1].op = "COPY" THEN ops[1].length ELSE Len(ops[1].data))
         + OpsSpan(Tail(ops))

\* Two operation lists that differ at most in the original_offset noted on
\* their copies, which is not encoded
SameOps(a, b) ==
    /\ Len(a) = Len(b)
    /\ \A i \in 1..Len(a) :
          /\ a[i].op = b[i].op
          /\ IF a[i].op = "COPY" THEN a[i].length = b[i].length
             ELSE a[i].data = b[i].data

\* bytes(PatchInstr(ops)) succeeds, and PatchInstr.from_bytes of it, with
\* other bytes behind it, gives the operations back
MacroRoundTrips(ops, original_offset) ==
    LET encoded == PatchOpsBytes(ops, <<PATCH>>)
        decoded == PatchFromBytes(encoded.val \o <<255>>, 0, original_offset)
    IN /\ encoded.exc = "none"
       /\ decoded.exc = "none"
       /\ SameOps(decoded.instr.operations, ops)
       /\ decoded.length = Len(encoded.val)
       /\ encoded.val[Len(encoded.val)] = 0
       /\ decoded.original_offset = original_offset + OpsSpan(ops)

\* The original cursors a macro is decoded at
MacroCursors == {0, 5}

\* C32: every PATCH macro that generation produces, after macro folding
\* and write cracking, alternates copies and writes strictly, starting with
\* a copy, with every copy length in 1..127 and every write length in
\* 1..255, so it can be encoded; decoding the encoded macro returns the same
\* sequence, consumes exactly the encoded bytes with the zero terminator,
\* and advances the original cursor by the sum of the lengths.
C32_MacrosEncodable ==
    (df_pc \in {"generated", "failed"}
     /\ gen_patch_instr(df_original, df_new).exc = "none") =>
        \A ops \in PatchMacros(gen_patch_instr(df_original, df_new).instr) :
            /\ ops # <<>>
            /\ Alternating(ops)
            /\ LengthsFit(ops)
            /\ \A c \in MacroCursors : MacroRoundTrips(ops, c)

\* One byte changed before a run of 122 unchanged bytes, the seven bytes
\* at the change found earlier in the original: the write that replaced the
\* jump was cracked and its six unchanged bytes were put in front of the
\* copy of the run, a copy of 128 bytes in a macro; generate raised the
\* AssertionError of PatchInstr.__bytes__
C32_CopyOf128InMacro ==
    /\ df_pc = "failed"
    /\ df_gen.exc = "AssertionError"
    /\ gen_patch_instr(df_original, df_new).exc = "none"
    /\ gen_patch_instr(df_original, df_new).instr
           = <<PatchInstr(<<CopyInstr(7, 0), WriteInstr(<<1>>),
                            CopyInstr(128, 8)>>)>>

\* The hash lengths whose pass _gen_patch_instr gets to: every pass before
\* them returned
PassesRun(bin_orig, bin_new) ==
    {h \in HashLens :
        \A g \in HashLens : g < h => HashLenPass(bin_orig, bin_new, g).exc = "none"}

\* What _merge_crack does in the pass of hash length h, when the pass gets
\* that far
CrackOutcome(bin_orig, bin_new, h) ==
    LET cleaned == cleanup_jumps(bin_orig, naive_diff(bin_orig, bin_new, h))
    IN IF cleaned.exc # "none" THEN Ok(<<>>)
       ELSE merge_crack(bin_orig,
                        merge_operations(common_writes(cleaned.val).instr))

\* No COPY of length 0 and no WRITE of no data among operations
NoEmptyOps(ops) ==
    \A i \in 1..Len(ops) :
        /\ ops[i].op = "COPY" => ops[i].length # 0
        /\ ops[i].op = "WRITE" => ops[i].data # <<>>

NoEmptyInstr(instr) ==
    /\ NoEmptyOps(instr)
    /\ \A ops \in PatchMacros(instr) : NoEmptyOps(ops)

\* C40: write cracking stays inside the original and builds no empty
\* instruction: for every (original, new), a new longer than the original
\* or writing past its end included, no pass of generation raises from
\* _merge_crack (IndexError for old[old_offset + idx] beyond the original,
\* AssertionError for a COPY or WRITE of length 0), and no instruction it
\* returns is empty.
C40_CrackingStaysInside ==
    df_pc \in {"generated", "failed"} =>
        \A h \in PassesRun(df_original, df_new) :
            /\ CrackOutcome(df_original, df_new, h).exc = "none"
            /\ NoEmptyInstr(CrackOutcome(df_original, df_new, h).val)

\* new is the original with a changed byte and three more bytes behind it:
\* the pass of hash length 4 folded COPY 4, WRITE 4 into a macro and the
\* cracking of the write read the original at 5, 6 and 7, past its 5 bytes
C40_ReadPastTheEnd ==
    /\ df_pc = "failed"
    /\ df_original = <<0, 0, 0, 0, 0>>
    /\ df_new = <<0, 0, 0, 0, 1, 0, 0, 0>>
    /\ merge_operations(common_writes(
           cleanup_jumps(df_original, naive_diff(df_original, df_new, 4)).val).instr)
           = <<PatchInstr(<<CopyInstr(4, 0), WriteInstr(<<1, 0, 0, 0>>)>>)>>
    /\ CrackOutcome(df_original, df_new, 4).exc = "IndexError"
    /\ df_gen.exc = "IndexError"

\* C33: no frame received on the transport terminates the RX worker: every
\* decode failure (unsupported inner interface, device-encrypted
\* advertising record, unknown packet type, truncated header or container,
\* changed device key) drops that frame only, no exception leaves
\* _handle_serial_frame, and the frames that arrive afterwards are handled.
C33_RxWorkerSurvives ==
    gw_feed \in GwFeeds => gw_h.raised = "none"

\* A container with a record heard on UDP was decoded after a frame with an
\* unknown type had been dropped: NotImplementedError left the handler and
\* the run loop of the RX worker
C33_EndedByUnsupportedInterface ==
    /\ gw_feed = "undecoded"
    /\ gw_h.prev.name = "unknown_type"
    /\ gw_h.prev.miss = "ValueError"
    /\ gw_h.name = "container_udp"
    /\ gw_h.miss = "NotImplementedError"
    /\ gw_h.raised = "NotImplementedError"
    /\ ~ENABLED GwHandleSerialFrame

\* What the claim names of a registry: the gateway id and, of every record,
\* the network id and the device key id
ObservedIds(db) ==
    [gateway |-> db.gateway,
     ids |-> [x \in DOMAIN db.devices |->
                 <<db.devices[x].network_id, db.devices[x].device_key_id>>]]

\* The failures of a frame that is not decoded: key miss and tag mismatch
NotDecoded == NoKeyErrors \cup {"InvalidTag"}

\* The frames of the run that the last call of the handler may have been
\* given
HandledFrames == {f \in FeedFrames(gw_feed) : f.name = gw_h.name /\ f.payload = gw_h.payload}

\* The record of a device in a registry, a new one if it has none
RecordOf(db, infuse_id) ==
    IF infuse_id \in DOMAIN db.devices THEN db.devices[infuse_id] ELSE NewDeviceState

\* C35 as stated: a frame that is not successfully decoded (authentication
\* failure or key miss) leaves the gateway id and every record's network
\* id and device key id as they were.
C35_UndecodedLeavesRegistry ==
    (gw_feed \in GwFeeds /\ gw_h.miss \in NotDecoded) =>
        ObservedIds(gw_db) = ObservedIds(gw_h.db_before)

\* C35, amended: a frame whose serial header fails the key lookup or the
\* tag check changes the registry as observe_device of that header does,
\* before the lookup, and in no other way: the gateway id is set to the
\* header's device id if none was set, the record of that device is created
\* if missing, its network id is set from key_metadata (ENCR_DEVICE clear)
\* or its device key id is (ENCR_DEVICE set); the shared key of the
\* record, all other records, public keys and Bluetooth addresses stay.
C35_UndecodedObservesHeader ==
    (gw_feed \in GwFeeds /\ gw_h.miss \in NotDecoded) =>
        \A f \in HandledFrames :
            SerialFrameDecrypt(gw_h.db_before, f.frame).exc \in NotDecoded =>
                LET h == ParseHeader(f.frame.bytes)
                    before == gw_h.db_before
                    prior == RecordOf(gw_h.db_before, ParseHeader(f.frame.bytes).device_id)
                IN /\ gw_db.gateway = IF before.gateway.some THEN before.gateway
                                      ELSE Some(h.device_id)
                   /\ DOMAIN gw_db.devices = DOMAIN before.devices \cup {h.device_id}
                   /\ \A x \in DOMAIN before.devices \ {h.device_id} :
                          gw_db.devices[x] = before.devices[x]
                   /\ gw_db.devices[h.device_id]
                          = [network_id |-> IF IsDeviceEncrypted(h.flags)
                                            THEN prior.network_id
                                            ELSE Some(h.key_metadata),
                             device_key_id |-> IF IsDeviceEncrypted(h.flags)
                                               THEN Some(h.key_metadata)
                                               ELSE prior.device_key_id,
                             shared_key |-> prior.shared_key]
                   /\ gw_db.bt_addr = before.bt_addr
                   /\ gw_db.device_bt_addr = before.device_bt_addr
                   /\ gw_db.device_public_key = before.device_public_key

\* After a frame under network 1 was decoded, a frame whose key_metadata
\* was changed on the wire to name network 0 failed the tag check, and the
\* record of the gateway now holds network 0
C35_NetworkIdFromBadTag ==
    /\ gw_h.name = "bad_network"
    /\ gw_h.miss = "InvalidTag"
    /\ gw_h.prev.name = "tdf_network"
    /\ gw_h.db_before.devices[IdA].network_id = Some(1)
    /\ gw_db.devices[IdA].network_id = Some(0)

\* C36: no well-formed client request terminates the TX worker: an
\* EPACKET_SEND that cannot be encoded (no response to the handshake of a
\* DEVICE hop within the wait, target record or key missing, a route of two
\* hops) is dropped and the worker handles the next request; only a
\* datagram that cannot be decoded may have ended it.
C36_TxWorkerSurvives ==
    (gw_feed \in GwFeeds /\ gw_tx.pc = "dead") => gw_t.name \in UndecodableNames

\* After a command for the gateway was written, a client sent a packet for
\* device B: the route has two hops, to_serial raised AssertionError and
\* the TX worker takes no further request
C36_EndedByTwoHopRoute ==
    /\ gw_feed = "rpc"
    /\ gw_t.prev = "send_rpc_1"
    /\ gw_t.name = "send_b"
    /\ gw_t.handled
    /\ gw_tx.pc = "dead"
    /\ gw_tx.exc = "AssertionError"
    /\ ~ENABLED TxHandleRequest

\* C38: with several clients on the bus, connection_create(id) is decided
\* only by notifications for that id: the CONNECTION_CREATED or
\* CONNECTION_FAILED that ended the wait carried the id that was requested.
C38_DecidedByOwnId ==
    (cl_pc # "off" /\ cl_h.decided_by.some) => cl_h.decided_by.val = cl_cfg.id

\* The client asked for device 5 and its scope began on the
\* CONNECTION_CREATED that the gateway broadcast for device 6
C38_CreatedByOtherDevice ==
    /\ cl_cfg.id = 5
    /\ cl_sent = <<ConnectionRequest(5)>>
    /\ cl_h.decided_by = Some(6)
    /\ cl_h.created = 1
    /\ cl_h.failed = 0
    /\ cl_h.begun
    /\ cl_pc = "cmd"

\* The bt_connect_infuse commands written for device B
ConnectsWritten == Cardinality({i \in DOMAIN gw_port : IsConnectCommand(gw_port[i])})

\* The bt_disconnect commands written for device B
DisconnectsWritten == Cardinality({i \in DOMAIN gw_port : IsDisconnectCommand(gw_port[i])})

\* The CONNECTION_CREATED notifications for device B that were broadcast
\* before the last request was handled
CreatedBeforeRequest ==
    Cardinality({i \in 1..gw_t.notified : gw_conn[i] = ConnFor(CONNECTION_CREATED)})

\* The last request is a release of device B that wrote a bt_disconnect
ReleaseDisconnected ==
    /\ gw_feed = "shared"
    /\ gw_t.name = "release_b"
    /\ \E i \in DOMAIN gw_t.writes : IsDisconnectCommand(gw_t.writes[i])

\* The clients that held a connection to device B when the last request, a
\* release, arrived: each sent a CONNECTION_REQUEST that wrote
\* bt_connect_infuse and saw a CONNECTION_CREATED for B, and the releases
\* before this one are taken off
HoldersAtRelease ==
    (IF ConnectsWritten < CreatedBeforeRequest THEN ConnectsWritten ELSE CreatedBeforeRequest)
        - (DisconnectsWritten - 1)

\* C39 as stated: when two clients each hold a connection to the same
\* device, a CONNECTION_RELEASE from one of them does not make the gateway
\* emit a bt_disconnect for that device while the other has not released.
C39_ReleaseKeepsSharedConnection ==
    ReleaseDisconnected => HoldersAtRelease <= 1

\* C39: when two clients each hold a connection to the same device, a
\* CONNECTION_RELEASE from one of them that the TX worker handles writes
\* exactly one bt_disconnect for the address of that device at once, although
\* the other client has not released: the gateway keeps no count of holders.
C39_ReleaseDisconnectsSharedConnection ==
    (/\ gw_feed = "shared"
     /\ gw_t.name = "release_b"
     /\ gw_t.handled
     /\ HoldersAtRelease >= 2)
        => /\ Len(gw_t.writes) = 1
           /\ IsDisconnectCommand(gw_t.writes[1])
           /\ gw_t.writes[1].peer = AddrB
           /\ gw_t.exc = "none"

\* Two requests for device B each wrote bt_connect_infuse and each was
\* answered with CONNECTION_CREATED; the third request, the release of one
\* client, wrote the only bt_disconnect
C39_DisconnectedUnderOtherClient ==
    /\ ReleaseDisconnected
    /\ gw_t.n = 3
    /\ gw_t.prev = "request_b"
    /\ ConnectsWritten = 2
    /\ CreatedBeforeRequest = 2
    /\ DisconnectsWritten = 1
    /\ HoldersAtRelease = 2
    /\ gw_tx.pc = "idle"

\* The commands generate returned whose response has not arrived
RqOutstanding == {i \in DOMAIN rq_cmds : ~rq_cmds[i].answered}

\* C37: under every interleaving of the RX and TX workers, the request ids
\* handed out by the local RPC generator are pairwise distinct among
\* outstanding commands, and every generated command keeps its own callback
\* in the outstanding-RPC table until its response arrives: no callback is
\* overwritten, lost or run for another command's response.
C37_OwnIdOwnCallback ==
    rq_th["rx"].pc # "off" =>
        /\ \A i, j \in RqOutstanding : i # j => rq_cmds[i].id # rq_cmds[j].id
        /\ \A i \in RqOutstanding :
              /\ rq_cmds[i].id \in DOMAIN rq_queued
              /\ rq_queued[rq_cmds[i].id] = rq_cmds[i].cb
        /\ ~rq_h.replaced
        /\ rq_h.unanswered = 0
        /\ \A k \in DOMAIN rq_h.ran : rq_h.ran[k].cb = rq_cmds[rq_h.ran[k].cmd].cb

\* Both workers read _cnt for their header before either stored its
\* callback: two commands carry one id, the callback of the RX worker was
\* replaced by _bt_connect_cb of the TX worker, and the response to the
\* query of the RX worker ran _bt_connect_cb
C37_CallbackOfOtherCommand ==
    /\ Len(rq_cmds) = 2
    /\ rq_cmds[1].by = "rx"
    /\ rq_cmds[2].by = "tx"
    /\ rq_cmds[1].id = rq_cmds[2].id
    /\ rq_cmds[2].cb.name = "bt_connect_cb"
    /\ rq_h.replaced
    /\ rq_h.ran = <<[cb |-> rq_cmds[2].cb, cmd |-> 1]>>
    /\ rq_th = [t \in RqWorkers |-> RqIdle]
====
